---- MODULE Spec2Model ----
(***************************************************************************)
(* Model of the time-capsule reveal service (Frontend/src/lib/reveal.ts).  *)
(*                                                                         *)
(* Strings the code inspects by shape (capsule ids, CIDs, addresses) are   *)
(* sequences of one-character strings, so that the regular expression      *)
(* /^\d+$/, startsWith and toLowerCase are computed, not looked up.        *)
(* Date.now() is the variable now, in milliseconds.  An async method is    *)
(* one action per segment between two awaits; the segments of different    *)
(* calls interleave (single-threaded cooperative scheduling).              *)
(***************************************************************************)
EXTENDS Integers, Sequences, FiniteSets, TLC

VARIABLES revealed_capsules, now, calls, sweep, ops, social, ipfs, download, crypto, files

vars ==
    <<revealed_capsules, now, calls, sweep, ops, social, ipfs, download, crypto, files>>

----------------------------------------------------------------------------
(* Bounds of the model *)

\* the clock stops after MaxTicks half-seconds
MaxTicks == 1
\* the callers make at most MaxOps calls of the service's methods
MaxOps == 2

----------------------------------------------------------------------------
(* String helpers *)

Digits == {"0", "1", "2", "3", "4", "5", "6", "7", "8", "9"}

\* capsuleId.match(/^\d+$/)
matchDigits(s) == Len(s) >= 1 /\ \A i \in 1..Len(s) : s[i] \in Digits

\* String.prototype.startsWith
startsWith(s, p) == Len(s) >= Len(p) /\ SubSeq(s, 1, Len(p)) = p

lowerChar(c) ==
    CASE c = "A" -> "a"
      [] c = "B" -> "b"
      [] c = "X" -> "x"
      [] OTHER -> c

\* String.prototype.toLowerCase
toLowerCase(s) == [i \in 1..Len(s) |-> lowerChar(s[i])]

MOCK_PREFIX == <<"m", "o", "c", "k", "_">>

----------------------------------------------------------------------------
(* The world the service reads: directory, kit store, content network *)

\* undefined / '' (both falsy in the code) for a string held as a sequence
NoString == <<>>
\* undefined for a message or an error text
Undefined == "undefined"

Alice == <<"0", "x", "A">>
alice == <<"0", "x", "a">>
Bob == <<"0", "x", "B">>

Id1 == <<"1">>
Id9 == <<"9">>
IdM3 == <<"m", "3">>

Cid1 == <<"Q", "m", "1">>
CidMock == <<"m", "o", "c", "k", "_", "3">>

\* localStorage 'timeCapsules': the capsule directory, read-only for the service
timeCapsules ==
    << [id |-> Id9, unlockTime |-> 1, ipfsHash |-> NoString],
       [id |-> Id1, unlockTime |-> 1, ipfsHash |-> Cid1],
       [id |-> IdM3, unlockTime |-> 2, ipfsHash |-> CidMock],
       [id |-> Id1, unlockTime |-> 0, ipfsHash |-> Cid1] >>

\* A recovery kit: key and iv are base64 strings in the code; the model keeps
\* their decoded lengths and the secret they encode.
Kit(keyLen, secret, capsuleId) ==
    [keyLen |-> keyLen, ivLen |-> 12, secret |-> secret, capsuleId |-> capsuleId]

Kits ==
    { Kit(32, "k1", Id1), Kit(32, "k1", IdM3), Kit(32, "k2", Id1), Kit(16, "k1", Id1) }

\* localStorage 'capsuleKeys': the kit store read by the sweep
capsuleKeys ==
    << [kit |-> Kit(32, "k1", Id1), ipfsCid |-> Cid1],
       [kit |-> Kit(32, "k1", IdM3), ipfsCid |-> CidMock] >>

\* What the content network holds under a CID: AES-GCM ciphertext of the
\* capsule's JSON payload, under the secret (key, iv) of that capsule.
Payload(creator, title) == [creator |-> creator, title |-> title]

PinnedCids == {Cid1}

ipfsContent(cid) ==
    CASE cid = Cid1 -> [secret |-> "k1", plain |-> Payload(Alice, "t1")]

Users == {alice, Bob}
CapsuleIds == {Id1, Id9, IdM3}
UnlockTimes == {1}
Messages == {"early"}
AUTO_MESSAGE == "Automatically revealed when unlock time was reached"

Slots == {"a", "b", "sweep"}
UserSlots == {"a", "b"}

----------------------------------------------------------------------------
(* RevealResult and RevealedCapsule values *)

\* { success: false, error }
Failure(err) == [success |-> FALSE, data |-> <<>>, error |-> err]

\* { success: true, data }
Success(capsule) == [success |-> TRUE, data |-> <<capsule>>, error |-> <<>>]

ErrInvalidKit == "Invalid recovery kit"
ErrBinding == "Recovery kit does not match the specified capsule"
ErrDuplicate == "This capsule has already been revealed"
ErrNoCid == "Could not find IPFS content for this capsule"
ErrDownload == "Failed to download content from IPFS"
ErrUnauthorized == "You are not authorized to reveal this capsule"
ErrPreviewNoCid == "Unable to locate capsule data on IPFS"
ErrPreviewUnauthorized == "You are not authorized to access this capsule"
ErrDecrypt == "OperationError"

\* the messages getHelpfulDownloadError can put in the aggregated error
DownloadErrors == {"Content not found on IPFS network", "Download timed out"}

\* a record that names the creator of the content as the revealer
NewRevealedCapsule_creator(id, data, at, by, early, unlockTime, msg) ==
    [id |-> id, originalData |-> data, revealedAt |-> at, revealedBy |-> data.creator,
     isEarlyReveal |-> early, originalUnlockTime |-> unlockTime,
     revealMessage |-> msg, likes |-> 0, comments |-> <<>>]

\* reveal.ts lines 107-118 and 161-175: the record of a reveal
NewRevealedCapsule(id, data, at, by, early, unlockTime, msg) ==
    [id |-> id, originalData |-> data, revealedAt |-> at, revealedBy |-> by,
     isEarlyReveal |-> early, originalUnlockTime |-> unlockTime,
     revealMessage |-> msg, likes |-> 0, comments |-> <<>>]

MockContent(userAddress) == Payload(userAddress, "Test Time Capsule")

----------------------------------------------------------------------------
(* CryptoService *)

validateRecoveryKit(kit) ==
    IF kit.keyLen # 32 THEN [isValid |-> FALSE, error |-> "Invalid key length"]
    ELSE IF kit.ivLen # 12 THEN [isValid |-> FALSE, error |-> "Invalid IV length"]
    ELSE [isValid |-> TRUE, error |-> Undefined]

\* AES-GCM: the tag verifies only under the secret the content was sealed with
decryptCapsuleContent(encryptedContent, kit) ==
    IF kit.secret = encryptedContent.secret
    THEN [ok |-> TRUE, data |-> <<encryptedContent.plain>>]
    ELSE [ok |-> FALSE, data |-> <<>>]

----------------------------------------------------------------------------
(* RevealService: the ledger *)

RECURSIVE findIndexFrom(_, _, _)
findIndexFrom(revealed, capsuleId, i) ==
    IF i > Len(revealed) THEN 0
    ELSE IF revealed[i].id = capsuleId THEN i
    ELSE findIndexFrom(revealed, capsuleId, i + 1)

\* revealed.findIndex(c => c.id === capsuleId), 1-based; 0 is the code's -1
findIndex(revealed, capsuleId) == findIndexFrom(revealed, capsuleId, 1)

\* getRevealedCapsule(capsuleId) !== null
isRevealed(revealed, capsuleId) == findIndex(revealed, capsuleId) # 0

getRevealedCapsule(revealed, capsuleId) == revealed[findIndex(revealed, capsuleId)]

\* a store that pushes without removing the existing entry
storeRevealedCapsule_push(revealed, capsule) == Append(revealed, capsule)

storeRevealedCapsule(revealed, capsule) ==
    Append(SelectSeq(revealed, LAMBDA c : c.id # capsule.id), capsule)

RECURSIVE findCapsuleFrom(_, _)
findCapsuleFrom(capsuleId, i) ==
    IF i > Len(timeCapsules) THEN 0
    ELSE IF timeCapsules[i].id = capsuleId THEN i
    ELSE findCapsuleFrom(capsuleId, i + 1)

\* the CID of the first directory entry with this id; NoString is the code's null
getCapsuleIPFSHash(capsuleId) ==
    LET i == findCapsuleFrom(capsuleId, 1)
    IN  IF i = 0 THEN NoString ELSE timeCapsules[i].ipfsHash

\* an authorization that compares the addresses letter for letter
isUserAuthorized_exact(capsuleData, userAddress) == capsuleData.creator = userAddress

isUserAuthorized(capsuleData, userAddress) ==
    toLowerCase(capsuleData.creator) = toLowerCase(userAddress)

\* a comparison of the millisecond clock with the unlock time in seconds
isEarly_seconds(t, originalUnlockTime) == t < originalUnlockTime

\* Date.now() < originalUnlockTime * 1000
isEarly(t, originalUnlockTime) == t < originalUnlockTime * 1000

----------------------------------------------------------------------------
(* One call of revealCapsule or previewCapsule: its arguments, its position *)
(* (the await it is suspended at), and what it has done so far.             *)

IdleCall ==
    [op |-> "none", pc |-> "idle", capsuleId |-> NoString, kit |-> Kit(32, "k1", Id1),
     user |-> NoString, unlockTime |-> 0, msg |-> Undefined, cid |-> NoString,
     result |-> Failure(<<>>), thrown |-> Undefined,
     hadRecord |-> FALSE, overlap |-> {}, located |-> FALSE, fetched |-> FALSE,
     decrypted |-> FALSE, writes |-> 0,
     lookups |-> 0, downloads |-> 0, decrypts |-> 0, tampered |-> FALSE]

InFlight(s) == calls[s].pc \notin {"idle", "done", "threw"}

NewCall(s, op, capsuleId, kit, user, unlockTime, msg) ==
    [IdleCall EXCEPT !.op = op, !.capsuleId = capsuleId, !.kit = kit, !.user = user,
                     !.unlockTime = unlockTime, !.msg = msg,
                     !.hadRecord = isRevealed(revealed_capsules, capsuleId),
                     !.overlap = {t \in Slots \ {s} : InFlight(t)}]

\* return value;
Return(value) == [kind |-> "return", value |-> value, error |-> Undefined]
\* throw new Error(error), leaving the method
Throw(error) == [kind |-> "throw", value |-> Failure(<<>>), error |-> error]

\* the call ends: its promise resolves with the value or rejects with the error
Settle(call, outcome) ==
    IF outcome.kind = "return"
    THEN [call EXCEPT !.pc = "done", !.result = outcome.value]
    ELSE [call EXCEPT !.pc = "threw", !.thrown = outcome.error]

\* a revealCapsule without its catch: the error leaves the method
revealCatch_rethrow(error) == Throw(error)

\* revealCapsule, lines 186-192: catch (error) { return { success: false, error: error.message } }
revealCatch(error) == Return(Failure(<<error>>))

\* previewCapsule, lines 403-409: the catch around download and decryption
previewInnerCatch(error) == Return(Failure(<<error>>))

\* the checks without the ledger lookup
revealChecks_nolookup(capsuleId, kit, revealed) ==
    LET validation == validateRecoveryKit(kit)
    IN  IF ~validation.isValid
        THEN <<Failure(<<ErrInvalidKit, validation.error>>)>>
        ELSE IF kit.capsuleId # capsuleId /\ ~matchDigits(capsuleId)
        THEN <<Failure(<<ErrBinding>>)>>
        ELSE <<>>

\* the checks with the binding tested before the kit is validated
revealChecks_bindingFirst(capsuleId, kit, revealed) ==
    LET validation == validateRecoveryKit(kit)
    IN  IF kit.capsuleId # capsuleId /\ ~matchDigits(capsuleId)
        THEN <<Failure(<<ErrBinding>>)>>
        ELSE IF ~validation.isValid
        THEN <<Failure(<<ErrInvalidKit, validation.error>>)>>
        ELSE IF isRevealed(revealed, capsuleId)
        THEN <<Failure(<<ErrDuplicate>>)>>
        ELSE <<>>

\* revealCapsule, lines 47-75: the checks made before the first await.
\* <<>> when they pass, else the result returned.
revealChecks(capsuleId, kit, revealed) ==
    LET validation == validateRecoveryKit(kit)
    IN  IF ~validation.isValid
        THEN <<Failure(<<ErrInvalidKit, validation.error>>)>>
        ELSE IF kit.capsuleId # capsuleId /\ ~matchDigits(capsuleId)
        THEN <<Failure(<<ErrBinding>>)>>
        ELSE IF isRevealed(revealed, capsuleId)
        THEN <<Failure(<<ErrDuplicate>>)>>
        ELSE <<>>

\* a preview that refuses a capsule already revealed, as revealCapsule does
previewChecks_lookup(capsuleId, kit, revealed) ==
    LET validation == validateRecoveryKit(kit)
    IN  IF ~validation.isValid
        THEN <<Failure(<<validation.error>>)>>
        ELSE IF isRevealed(revealed, capsuleId)
        THEN <<Failure(<<ErrDuplicate>>)>>
        ELSE <<>>

\* previewCapsule, lines 356-368: only the kit's structure is checked
previewChecks(capsuleId, kit, revealed) ==
    LET validation == validateRecoveryKit(kit)
    IN  IF ~validation.isValid
        THEN <<Failure(<<validation.error>>)>>
        ELSE <<>>

\* revealCapsule from its entry to its first await (the directory lookup)
revealEntered(s, capsuleId, kit, user, unlockTime, msg) ==
    LET call == NewCall(s, "reveal", capsuleId, kit, user, unlockTime, msg)
        failed == revealChecks(capsuleId, kit, revealed_capsules)
    IN  IF failed # <<>>
        THEN Settle(call, Return(failed[1]))
        ELSE [call EXCEPT !.pc = "lookup", !.cid = getCapsuleIPFSHash(capsuleId),
                          !.lookups = @ + 1]

\* previewCapsule from its entry to its first await
previewEntered(s, capsuleId, kit, user, unlockTime) ==
    LET call == NewCall(s, "preview", capsuleId, kit, user, unlockTime, Undefined)
        failed == previewChecks(capsuleId, kit, revealed_capsules)
    IN  IF failed # <<>>
        THEN Settle(call, Return(failed[1]))
        ELSE [call EXCEPT !.pc = "lookup", !.cid = getCapsuleIPFSHash(capsuleId),
                          !.lookups = @ + 1]

----------------------------------------------------------------------------
(* revealCapsule *)

\* a caller invokes revealCapsule(capsuleId, recoveryKit, userAddress,
\* originalUnlockTime, revealMessage): lines 44-78
RevealStart(s, capsuleId, kit, user, unlockTime, msg) ==
    /\ ops < MaxOps
    /\ calls[s].pc = "idle"
    /\ calls' = [calls EXCEPT ![s] = revealEntered(s, capsuleId, kit, user, unlockTime, msg)]
    /\ ops' = ops + 1
    /\ UNCHANGED <<revealed_capsules, now, sweep, social, ipfs, download, crypto, files>>

\* lines 78-137: the lookup has resolved; no CID, the mock branch, or the
\* download is issued
RevealAfterLookup(s) ==
    /\ calls[s].op = "reveal" /\ calls[s].pc = "lookup"
    /\ LET call == calls[s]
       IN  IF call.cid = NoString
           THEN /\ calls' = [calls EXCEPT ![s] = Settle(call, Return(Failure(<<ErrNoCid>>)))]
                /\ UNCHANGED revealed_capsules
           ELSE IF startsWith(call.cid, MOCK_PREFIX)
           THEN LET revealedCapsule ==
                        NewRevealedCapsule(call.capsuleId, MockContent(call.user), now,
                            call.user, isEarly(now, call.unlockTime), call.unlockTime,
                            IF call.msg = Undefined THEN "" ELSE call.msg)
                IN  /\ revealed_capsules' =
                            storeRevealedCapsule(revealed_capsules, revealedCapsule)
                    /\ calls' = [calls EXCEPT ![s] =
                            Settle([call EXCEPT !.located = TRUE, !.writes = @ + 1],
                                   Return(Success(revealedCapsule)))]
           ELSE /\ calls' = [calls EXCEPT ![s] =
                        [call EXCEPT !.pc = "download", !.located = TRUE,
                                     !.downloads = @ + 1]]
                /\ UNCHANGED revealed_capsules
    /\ UNCHANGED <<now, sweep, ops, social, ipfs, download, crypto, files>>

\* a reveal that calls the download a second time when the first one failed
revealDownloaded_retry(call, outcome) ==
    IF outcome = "ok"
    THEN [call EXCEPT !.pc = "decrypt", !.fetched = TRUE, !.decrypts = @ + 1]
    ELSE IF call.downloads < 2
    THEN [call EXCEPT !.downloads = @ + 1]
    ELSE Settle(call, Return(Failure(<<ErrDownload, outcome>>)))

\* lines 136-149: the try around ipfsService.download and its catch; with the
\* content, decryptCapsuleContent is called
revealDownloaded(call, outcome) ==
    IF outcome = "ok"
    THEN [call EXCEPT !.pc = "decrypt", !.fetched = TRUE, !.decrypts = @ + 1]
    ELSE Settle(call, Return(Failure(<<ErrDownload, outcome>>)))

\* a preview that calls the download a second time when the first one failed
previewDownloaded_retry(call, outcome) ==
    IF outcome = "ok"
    THEN [call EXCEPT !.pc = "decrypt", !.fetched = TRUE, !.decrypts = @ + 1]
    ELSE IF call.downloads < 2
    THEN [call EXCEPT !.downloads = @ + 1]
    ELSE Settle(call, previewInnerCatch(outcome))

\* lines 395-409: the try around download and decryption and its catch
previewDownloaded(call, outcome) ==
    IF outcome = "ok"
    THEN [call EXCEPT !.pc = "decrypt", !.fetched = TRUE, !.decrypts = @ + 1]
    ELSE Settle(call, previewInnerCatch(outcome))

\* what the download hands to the decryption: the ciphertext pinned under
\* the CID, or bytes that are not that ciphertext
Tampered == [secret |-> "none", plain |-> Payload(NoString, "")]
received(call) == IF call.tampered THEN Tampered ELSE ipfsContent(call.cid)

\* lines 136-149: ipfsService.download has settled; on success the
\* decryption is issued
RevealAfterDownload(s) ==
    /\ calls[s].op = "reveal" /\ calls[s].pc = "download"
    /\ \E outcome \in {"ok"} \cup DownloadErrors :
         /\ outcome = "ok" => calls[s].cid \in PinnedCids
         /\ calls' = [calls EXCEPT ![s] = revealDownloaded(@, outcome)]
    /\ UNCHANGED <<revealed_capsules, now, sweep, ops, social, ipfs, download, crypto, files>>

\* lines 136-149: ipfsService.download has returned a string that is not the
\* ciphertext of the capsule
RevealAfterTamperedDownload(s) ==
    /\ calls[s].op = "reveal" /\ calls[s].pc = "download"
    /\ calls' = [calls EXCEPT ![s] =
            revealDownloaded([@ EXCEPT !.tampered = TRUE], "ok")]
    /\ UNCHANGED <<revealed_capsules, now, sweep, ops, social, ipfs, download, crypto, files>>

\* lines 149-192: decryptCapsuleContent has settled
RevealAfterDecrypt(s) ==
    /\ calls[s].op = "reveal" /\ calls[s].pc = "decrypt"
    /\ LET call == calls[s]
           decrypted == decryptCapsuleContent(received(call), call.kit)
       IN  IF ~decrypted.ok
           THEN /\ calls' = [calls EXCEPT ![s] = Settle(call, revealCatch(ErrDecrypt))]
                /\ UNCHANGED revealed_capsules
           ELSE IF ~isUserAuthorized(decrypted.data[1], call.user)
           THEN /\ calls' = [calls EXCEPT ![s] =
                        Settle([call EXCEPT !.decrypted = TRUE],
                               Return(Failure(<<ErrUnauthorized>>)))]
                /\ UNCHANGED revealed_capsules
           ELSE LET revealedCapsule ==
                        NewRevealedCapsule(call.capsuleId, decrypted.data[1], now,
                            call.user, isEarly(now, call.unlockTime), call.unlockTime,
                            call.msg)
                IN  /\ revealed_capsules' =
                            storeRevealedCapsule(revealed_capsules, revealedCapsule)
                    /\ calls' = [calls EXCEPT ![s] =
                            Settle([call EXCEPT !.decrypted = TRUE,
                                                !.writes = @ + 1],
                                   Return(Success(revealedCapsule)))]
    /\ UNCHANGED <<now, sweep, ops, social, ipfs, download, crypto, files>>

----------------------------------------------------------------------------
(* previewCapsule *)

\* a caller invokes previewCapsule(capsuleId, recoveryKit, userAddress,
\* originalUnlockTime): lines 353-371
PreviewStart(s, capsuleId, kit, user, unlockTime) ==
    /\ ops < MaxOps
    /\ calls[s].pc = "idle"
    /\ calls' = [calls EXCEPT ![s] = previewEntered(s, capsuleId, kit, user, unlockTime)]
    /\ ops' = ops + 1
    /\ UNCHANGED <<revealed_capsules, now, sweep, social, ipfs, download, crypto, files>>

\* lines 420-443: the preview data of a call whose content passed authorization
previewData(call, decryptedContent) ==
    NewRevealedCapsule(call.capsuleId, decryptedContent, now, call.user,
        isEarly(now, call.unlockTime), call.unlockTime, Undefined)

\* lines 371-397: the lookup has resolved
PreviewAfterLookup(s) ==
    /\ calls[s].op = "preview" /\ calls[s].pc = "lookup"
    /\ LET call == calls[s]
       IN  calls' = [calls EXCEPT ![s] =
               IF call.cid = NoString
               THEN Settle(call, Return(Failure(<<ErrPreviewNoCid>>)))
               ELSE IF startsWith(call.cid, MOCK_PREFIX)
               THEN IF ~isUserAuthorized(MockContent(call.user), call.user)
                    THEN Settle([call EXCEPT !.located = TRUE],
                                Return(Failure(<<ErrPreviewUnauthorized>>)))
                    ELSE Settle([call EXCEPT !.located = TRUE],
                                Return(Success(previewData(call, MockContent(call.user)))))
               ELSE [call EXCEPT !.pc = "download", !.located = TRUE,
                                 !.downloads = @ + 1]]
    /\ UNCHANGED <<revealed_capsules, now, sweep, ops, social, ipfs, download, crypto, files>>

\* lines 395-409: ipfsService.download has settled
PreviewAfterDownload(s) ==
    /\ calls[s].op = "preview" /\ calls[s].pc = "download"
    /\ \E outcome \in {"ok"} \cup DownloadErrors :
         /\ outcome = "ok" => calls[s].cid \in PinnedCids
         /\ calls' = [calls EXCEPT ![s] = previewDownloaded(@, outcome)]
    /\ UNCHANGED <<revealed_capsules, now, sweep, ops, social, ipfs, download, crypto, files>>

\* lines 401-443: decryptCapsuleContent has settled
PreviewAfterDecrypt(s) ==
    /\ calls[s].op = "preview" /\ calls[s].pc = "decrypt"
    /\ LET call == calls[s]
           decrypted == decryptCapsuleContent(received(call), call.kit)
       IN  calls' = [calls EXCEPT ![s] =
               IF ~decrypted.ok
               THEN Settle(call, previewInnerCatch(ErrDecrypt))
               ELSE IF ~isUserAuthorized(decrypted.data[1], call.user)
               THEN Settle([call EXCEPT !.decrypted = TRUE],
                           Return(Failure(<<ErrPreviewUnauthorized>>)))
               ELSE Settle([call EXCEPT !.decrypted = TRUE],
                           Return(Success(previewData(call, decrypted.data[1]))))]
    /\ UNCHANGED <<revealed_capsules, now, sweep, ops, social, ipfs, download, crypto, files>>

\* the caller of a settled revealCapsule or previewCapsule takes the result
TakeResult(s) ==
    /\ s \in UserSlots
    /\ calls[s].pc \in {"done", "threw"}
    /\ calls' = [t \in Slots |->
            IF t = s THEN IdleCall ELSE [calls[t] EXCEPT !.overlap = @ \ {s}]]
    /\ UNCHANGED <<revealed_capsules, now, sweep, ops, social, ipfs, download, crypto, files>>

----------------------------------------------------------------------------
(* Social interactions and the feed *)

\* a like that does not test the index
likeCapsule_nocheck(revealed, capsuleId) ==
    LET capsuleIndex == findIndex(revealed, capsuleId)
    IN  [ok |-> TRUE,
         revealed |-> [i \in 1..Len(revealed) |->
                          IF i = capsuleIndex THEN [revealed[i] EXCEPT !.likes = @ + 1]
                          ELSE revealed[i]]]

\* lines 254-269
likeCapsule(revealed, capsuleId) ==
    LET capsuleIndex == findIndex(revealed, capsuleId)
    IN  IF capsuleIndex = 0
        THEN [ok |-> FALSE, revealed |-> revealed]
        ELSE [ok |-> TRUE,
              revealed |-> [revealed EXCEPT ![capsuleIndex].likes = @ + 1]]

\* a comment put in front of the list (unshift for push)
addComment_unshift(revealed, capsuleId, author, content, t) ==
    LET capsuleIndex == findIndex(revealed, capsuleId)
        comment == [id |-> t, author |-> author, content |-> content, timestamp |-> t]
    IN  IF capsuleIndex = 0
        THEN [ok |-> FALSE, revealed |-> revealed]
        ELSE [ok |-> TRUE,
              revealed |-> [revealed EXCEPT ![capsuleIndex].comments = <<comment>> \o @]]

\* lines 271-293; t is Date.now(), read for the id and for the timestamp
addComment(revealed, capsuleId, author, content, t) ==
    LET capsuleIndex == findIndex(revealed, capsuleId)
        comment == [id |-> t, author |-> author, content |-> content, timestamp |-> t]
    IN  IF capsuleIndex = 0
        THEN [ok |-> FALSE, revealed |-> revealed]
        ELSE [ok |-> TRUE,
              revealed |-> [revealed EXCEPT ![capsuleIndex].comments = Append(@, comment)]]

\* the last likeCapsule or addComment call: its arguments, the boolean it
\* returned, and its number among the calls made
NoSocial ==
    [op |-> "none", capsuleId |-> NoString, author |-> NoString, content |-> "",
     returned |-> FALSE, seq |-> 0]

LikeCapsule(capsuleId) ==
    /\ ops < MaxOps
    /\ LET liked == likeCapsule(revealed_capsules, capsuleId)
       IN  /\ revealed_capsules' = liked.revealed
           /\ social' = [NoSocial EXCEPT !.op = "like", !.capsuleId = capsuleId,
                                         !.returned = liked.ok, !.seq = ops + 1]
    /\ ops' = ops + 1
    /\ UNCHANGED <<now, calls, sweep, ipfs, download, crypto, files>>

AddComment(capsuleId, author, content) ==
    /\ ops < MaxOps
    /\ LET commented == addComment(revealed_capsules, capsuleId, author, content, now)
       IN  /\ revealed_capsules' = commented.revealed
           /\ social' = [NoSocial EXCEPT !.op = "comment", !.capsuleId = capsuleId,
                                         !.author = author, !.content = content,
                                         !.returned = commented.ok, !.seq = ops + 1]
    /\ ops' = ops + 1
    /\ UNCHANGED <<now, calls, sweep, ipfs, download, crypto, files>>

\* lines 309-313: localStorage.removeItem(REVEALED_CAPSULES_KEY)
ClearAllRevealedCapsules ==
    /\ ops < MaxOps
    /\ revealed_capsules' = <<>>
    /\ ops' = ops + 1
    /\ UNCHANGED <<now, calls, sweep, social, ipfs, download, crypto, files>>

\* the clock advances by half a second
Tick ==
    /\ now < (MaxTicks + 1) * 500
    /\ now' = now + 500
    /\ UNCHANGED <<revealed_capsules, calls, sweep, ops, social, ipfs, download, crypto, files>>

----------------------------------------------------------------------------
(* checkAndRevealUnlockedCapsules *)

\* one call of the sweep: its position in the loop and autoRevealedCount, with
\* what it has done so far: the ids the ledger held when it began, the
\* directory positions it called revealCapsule for, and those that succeeded
IdleSweep ==
    [pc |-> "idle", user |-> NoString, currentTime |-> 0, idx |-> 0, count |-> 0,
     before |-> {}, attempts |-> <<>>, succeeded |-> {}]

\* the capsule ids that have a record
ledgerIds(revealed) == {revealed[i].id : i \in 1..Len(revealed)}

RECURSIVE findKitFrom(_, _)
findKitFrom(capsule, i) ==
    IF i > Len(capsuleKeys) THEN 0
    ELSE IF capsuleKeys[i].kit.capsuleId = capsule.id
            \/ capsuleKeys[i].ipfsCid = capsule.ipfsHash THEN i
    ELSE findKitFrom(capsule, i + 1)

\* lines 486-488: recoveryKits.find(kit => kit.capsuleId === capsule.id ||
\* kit.ipfsCid === capsule.ipfsHash); 0 when there is none
findKit(capsule) == findKitFrom(capsule, 1)

\* a sweep that compares the millisecond clock with the unlock time in seconds
isNaturallyUnlocked_seconds(t, capsule) == t >= capsule.unlockTime

\* line 478: currentTime >= capsule.unlockTime, with currentTime = Date.now() / 1000
\* kept as the millisecond reading t
isNaturallyUnlocked(t, capsule) == t >= capsule.unlockTime * 1000

\* a loop that looks at the first directory entry only
nextToReveal_first(i, t, revealed) ==
    IF /\ i = 1
       /\ t >= timeCapsules[1].unlockTime * 1000
       /\ ~isRevealed(revealed, timeCapsules[1].id)
       /\ findKit(timeCapsules[1]) # 0
    THEN 1 ELSE 0

\* lines 473-495: the next capsule, from position i on, that the loop reveals:
\* unlocked, without a ledger record, with a kit. 0 when the loop ends.
RECURSIVE nextToReveal(_, _, _)
nextToReveal(i, t, revealed) ==
    IF i > Len(timeCapsules) THEN 0
    ELSE IF /\ isNaturallyUnlocked(t, timeCapsules[i])
            /\ ~isRevealed(revealed, timeCapsules[i].id)
            /\ findKit(timeCapsules[i]) # 0
         THEN i
    ELSE nextToReveal(i + 1, t, revealed)

\* the loop runs from position i to its next await (a revealCapsule call) or
\* to the return of the count
sweepFrom(sw, i) ==
    LET j == nextToReveal(i, sw.currentTime, revealed_capsules)
        others == [t \in Slots |-> [calls[t] EXCEPT !.overlap = @ \ {"sweep"}]]
    IN  IF j = 0
        THEN /\ sweep' = [sw EXCEPT !.pc = "done"]
             /\ calls' = [others EXCEPT !["sweep"] = IdleCall]
        ELSE /\ sweep' = [sw EXCEPT !.pc = "awaiting", !.idx = j,
                                    !.attempts = Append(@, j)]
             /\ calls' = [others EXCEPT !["sweep"] =
                    revealEntered("sweep", timeCapsules[j].id,
                        capsuleKeys[findKit(timeCapsules[j])].kit, sw.user,
                        timeCapsules[j].unlockTime, AUTO_MESSAGE)]

\* lines 454-499: a caller invokes checkAndRevealUnlockedCapsules(userAddress)
SweepStart(user) ==
    /\ ops < MaxOps
    /\ sweep.pc = "idle"
    /\ sweepFrom([IdleSweep EXCEPT !.user = user, !.currentTime = now,
                                   !.before = ledgerIds(revealed_capsules)], 1)
    /\ ops' = ops + 1
    /\ UNCHANGED <<revealed_capsules, now, social, ipfs, download, crypto, files>>

\* a sweep that counts every revealCapsule call it made, failed ones too
SweepResume_countAll ==
    /\ sweep.pc = "awaiting"
    /\ calls["sweep"].pc \in {"done", "threw"}
    /\ LET counted == calls["sweep"].pc = "done" /\ calls["sweep"].result.success
       IN  sweepFrom([sweep EXCEPT !.count = @ + 1,
                                   !.succeeded = IF counted THEN @ \cup {sweep.idx} ELSE @],
                     sweep.idx + 1)
    /\ UNCHANGED <<revealed_capsules, now, ops, social, ipfs, download, crypto, files>>

\* a sweep that returns at the first revealCapsule call that fails
SweepResume_halt ==
    /\ sweep.pc = "awaiting"
    /\ calls["sweep"].pc \in {"done", "threw"}
    /\ LET counted == calls["sweep"].pc = "done" /\ calls["sweep"].result.success
       IN  sweepFrom([sweep EXCEPT !.count = IF counted THEN @ + 1 ELSE @,
                                   !.succeeded = IF counted THEN @ \cup {sweep.idx} ELSE @],
                     IF counted THEN sweep.idx + 1 ELSE Len(timeCapsules) + 1)
    /\ UNCHANGED <<revealed_capsules, now, ops, social, ipfs, download, crypto, files>>

\* lines 499-526: the awaited revealCapsule has settled; a success is counted,
\* a failure or an exception is logged, and the loop goes on
SweepResume ==
    /\ sweep.pc = "awaiting"
    /\ calls["sweep"].pc \in {"done", "threw"}
    /\ LET counted == calls["sweep"].pc = "done" /\ calls["sweep"].result.success
       IN  sweepFrom([sweep EXCEPT !.count = IF counted THEN @ + 1 ELSE @,
                                   !.succeeded = IF counted THEN @ \cup {sweep.idx} ELSE @],
                     sweep.idx + 1)
    /\ UNCHANGED <<revealed_capsules, now, ops, social, ipfs, download, crypto, files>>

\* the caller takes the returned count
SweepReturn ==
    /\ sweep.pc = "done"
    /\ sweep' = IdleSweep
    /\ UNCHANGED <<revealed_capsules, now, calls, ops, social, ipfs, download, crypto, files>>

----------------------------------------------------------------------------
(* IPFSService: upload with the localStorage fallback, download of a local CID *)

LOCAL_PREFIX == <<"l", "o", "c", "a", "l", "_">>

digitChar(d) ==
    CASE d = 0 -> "0" [] d = 1 -> "1" [] d = 2 -> "2" [] d = 3 -> "3" [] d = 4 -> "4"
      [] d = 5 -> "5" [] d = 6 -> "6" [] d = 7 -> "7" [] d = 8 -> "8" [] d = 9 -> "9"

\* the decimal digits of a timestamp inside a template string
RECURSIVE toString(_)
toString(n) == IF n < 10 THEN <<digitChar(n)>> ELSE toString(n \div 10) \o <<digitChar(n % 10)>>

\* Math.random().toString(36).slice(2, 8), one character kept
RandomIds == {<<"a">>, <<"b">>}

\* what a caller uploads: the empty string, one character, two characters
Contents == {<<>>, <<"x">>, <<"x", "y">>}

FileNames == {"content.txt"}

\* `local_${timestamp}_${randomId}`
mockCid(timestamp, randomId) == LOCAL_PREFIX \o toString(timestamp) \o <<"_">> \o randomId

\* `ipfs_${cid}` and `ipfs_meta_${cid}`, the localStorage keys
ipfsKey(cid) == <<"i", "p", "f", "s", "_">> \o cid
ipfsMetaKey(cid) == <<"i", "p", "f", "s", "_", "m", "e", "t", "a", "_">> \o cid

\* localStorage.setItem / getItem on a map from keys to values; getItem gives
\* <<>> for the code's null and <<value>> for a stored value
setItem(storage, key, value) ==
    [k \in DOMAIN storage \cup {key} |-> IF k = key THEN value ELSE storage[k]]
getItem(storage, key) == IF key \in DOMAIN storage THEN <<storage[key]>> ELSE <<>>

\* the service's part of localStorage, the last upload with the data it was
\* given, and the last download with its outcome
NoIpfs == [store |-> <<>>, meta |-> <<>>, put |-> <<>>, got |-> <<>>]

\* lines 102-124
fallbackToLocalStorage(storage, data, fileName, timestamp, randomId) ==
    LET cid == mockCid(timestamp, randomId)
    IN  [store |-> setItem(storage.store, ipfsKey(cid), data),
         meta |-> setItem(storage.meta, ipfsMetaKey(cid),
                     [fileName |-> fileName, uploadedAt |-> timestamp, size |-> Len(data)]),
         result |-> [cid |-> cid, url |-> <<"l", "o", "c", "a", "l", ":", "/", "/">> \o cid,
                     size |-> Len(data), method |-> "localStorage"]]

\* what the remote backend does with an upload: there is no JWT, the request
\* fails (fetch throws), the response is not a success, or the content is pinned
RemoteOutcomes == {"nojwt", "failed", "rejected", "pinned"}

\* an upload that takes every response for a success
uploadToPinata_anyResponse(storage, data, fileName, remote, timestamp, randomId) ==
    IF remote \in {"pinned", "rejected"}
    THEN [store |-> storage.store, meta |-> storage.meta,
          result |-> [cid |-> Cid1, url |-> <<"h", "t", "t", "p", "s", ":", "/", "/">> \o Cid1,
                      size |-> Len(data), method |-> "pinata"]]
    ELSE fallbackToLocalStorage(storage, data, fileName, timestamp, randomId)

\* lines 40-99: the pinned CID on success, the fallback in every other case
uploadToPinata(storage, data, fileName, remote, timestamp, randomId) ==
    IF remote = "pinned"
    THEN [store |-> storage.store, meta |-> storage.meta,
          result |-> [cid |-> Cid1, url |-> <<"h", "t", "t", "p", "s", ":", "/", "/">> \o Cid1,
                      size |-> Len(data), method |-> "pinata"]]
    ELSE fallbackToLocalStorage(storage, data, fileName, timestamp, randomId)

\* !cid || cid.trim() === ''
isBlank(cid) == \A i \in 1..Len(cid) : cid[i] = " "

ErrEmptyCid == "Invalid CID: CID cannot be empty"
ErrNotInLocalStorage == "Content not found in localStorage for CID"

\* download, lines 145-162: the CID check and the localStorage branch
downloadLocal(storage, cid) ==
    IF isBlank(cid) THEN Throw(ErrEmptyCid)
    ELSE LET stored == getItem(storage.store, ipfsKey(cid))
         IN  IF stored = <<>> \/ stored[1] = <<>>
             THEN Throw(ErrNotInLocalStorage)
             ELSE Return(stored[1])

\* the CIDs a caller downloads: empty, blank, and every local CID there can be
LocalCids ==
    {<<>>, <<" ">>} \cup
    {mockCid(t, r) : t \in {500 * k : k \in 1..(MaxTicks + 1)}, r \in RandomIds}

\* uploadString(content, fileName), lines 127-130
UploadString(content, fileName, remote, randomId) ==
    /\ ops < MaxOps
    /\ LET up == uploadToPinata(ipfs, content, fileName, remote, now, randomId)
       IN  ipfs' = [store |-> up.store, meta |-> up.meta,
                    put |-> <<[result |-> up.result, data |-> content, remote |-> remote]>>,
                    got |-> <<>>]
    /\ ops' = ops + 1
    /\ UNCHANGED <<revealed_capsules, now, calls, sweep, social, download, crypto, files>>

\* download(cid) of an empty or a local CID
Download(cid) ==
    /\ isBlank(cid) \/ startsWith(cid, LOCAL_PREFIX)
    /\ ipfs' = [ipfs EXCEPT !.got = <<[cid |-> cid, outcome |-> downloadLocal(ipfs, cid)]>>]
    /\ UNCHANGED <<revealed_capsules, now, calls, sweep, ops, social, download, crypto, files>>

----------------------------------------------------------------------------
(* IPFSService.download of a remote CID: the gateways, two tries each *)

\* lines 186-196, by host name; gatewayIndex counts from 1 here
gateways ==
    << "gateway.pinata.cloud", "ipfs.io", "dweb.link", "cloudflare-ipfs.com",
       "gateway.ipfs.io", "cf-ipfs.com" >>

\* An error message is kept as the set of the texts the code searches for that
\* it contains; String.prototype.includes is membership.
includes(message, text) == text \in message

\* what a gateway can send back under a 200: the pinned content, or a page of
\* its own that is not the content
PinnedBody == <<"c", "t">>
OtherBody == <<"h", "t", "m", "l">>

\* How the try block of one attempt can end, with its cause: a response that
\* was read (ok, 404, another status), the timeout's Error, the TypeError of
\* fetch, or an ok response whose text() rejects because the connection broke
\* while the body was read. A user agent words the TypeError of a cross-origin
\* block as it likes: it may name CORS, read 'Failed to fetch' as for any
\* network failure, or contain none of the texts the code searches for.
FetchOutcome(cause, settled, status, body, typeError, message) ==
    [cause |-> cause, settled |-> settled, ok |-> status = 200, status |-> status,
     body |-> body, typeError |-> typeError, message |-> message]

FetchOutcomes ==
    { FetchOutcome("ok", "response", 200, PinnedBody, FALSE, {}),
      FetchOutcome("ok", "response", 200, OtherBody, FALSE, {}),
      FetchOutcome("notfound", "response", 404, NoString, FALSE, {}),
      FetchOutcome("http", "response", 500, NoString, FALSE, {}),
      FetchOutcome("timeout", "rejected", 0, NoString, FALSE, {"timeout"}),
      FetchOutcome("cors", "rejected", 0, NoString, TRUE, {"CORS"}),
      FetchOutcome("cors", "rejected", 0, NoString, TRUE, {"Failed to fetch"}),
      FetchOutcome("cors", "rejected", 0, NoString, TRUE, {}),
      FetchOutcome("network", "rejected", 0, NoString, TRUE, {"Failed to fetch"}),
      FetchOutcome("network", "rejected", 0, NoString, TRUE, {}),
      FetchOutcome("body", "rejected", 200, NoString, TRUE, {}) }

\* line 239: new Error(`HTTP ${response.status}: ${response.statusText}`)
httpError(status) ==
    [typeError |-> FALSE, message |-> IF status = 404 THEN {"404", "Not Found"} ELSE {}]

\* lines 267-287; lastError is <<>> for null
getHelpfulDownloadError(cid, lastError) ==
    LET errorMessage == IF lastError = <<>> THEN {} ELSE lastError[1].message
    IN  IF includes(errorMessage, "CORS")
        THEN "Download failed due to CORS restrictions"
        ELSE IF includes(errorMessage, "404") \/ includes(errorMessage, "Not Found")
        THEN "Content not found on IPFS network"
        ELSE IF includes(errorMessage, "timeout")
        THEN "Download timed out"
        ELSE IF includes(errorMessage, "Load failed") \/ includes(errorMessage, "Failed to fetch")
        THEN "Network error while downloading"
        ELSE "Failed to download content from IPFS"

\* one call of download: its position in the two loops and lastError, with
\* what it has done so far: the requests it sent, the tries made on each
\* gateway, the last attempt, and the contents earlier calls returned
NoDownload ==
    [pc |-> "idle", cid |-> NoString, gatewayIndex |-> 0, retry |-> 0, lastError |-> <<>>,
     outcome |-> Throw(Undefined), requests |-> 0,
     tries |-> [g \in 1..Len(gateways) |-> 0], last |-> <<>>, earlier |-> {}]

\* a delay that does not grow with the retry number
delayBefore_flat(gatewayIndex, retry) ==
    IF retry > 0 \/ gatewayIndex > 1 THEN 1000 ELSE 0

\* lines 211-213: the delay before the attempt at (gatewayIndex, retry)
delayBefore(gatewayIndex, retry) ==
    IF retry > 0 \/ gatewayIndex > 1 THEN 1000 + retry * 2000 ELSE 0

\* a loop with retry <= 2: one try more on every gateway
MaxTries_inclusive == 2 + 1

\* line 205: retry < 2
MaxTries == 2

\* a success that only leaves the retry loop, so that the next gateway is asked
onSuccess_break(made, fetched) ==
    IF made.gatewayIndex < Len(gateways)
    THEN [made EXCEPT !.gatewayIndex = @ + 1, !.retry = 0]
    ELSE [made EXCEPT !.pc = "done", !.outcome = Return(fetched.body)]

\* lines 232-237: return await response.text()
onSuccess(made, fetched) ==
    [made EXCEPT !.pc = "done", !.outcome = Return(fetched.body)]

\* lines 239 and 249: the error an attempt without success leaves in lastError
errorOf(fetched) ==
    IF fetched.settled = "response"
    THEN httpError(fetched.status)
    ELSE [typeError |-> fetched.typeError, message |-> fetched.message]

\* a retry loop that goes on after a 404
breaks_no404(fetched) ==
    /\ fetched.settled = "rejected"
    /\ errorOf(fetched).typeError /\ includes(errorOf(fetched).message, "CORS")

\* a retry loop that a timeout ends as well
breaks_timeout(fetched) ==
    IF fetched.settled = "response"
    THEN fetched.status = 404
    ELSE \/ errorOf(fetched).typeError /\ includes(errorOf(fetched).message, "CORS")
         \/ includes(errorOf(fetched).message, "timeout")

\* lines 243-245 and 253-256: the two breaks out of the retry loop
breaks(fetched) ==
    IF fetched.settled = "response"
    THEN fetched.status = 404
    ELSE errorOf(fetched).typeError /\ includes(errorOf(fetched).message, "CORS")

\* an outer loop that steps over a gateway
nextGateway_skip(gatewayIndex) ==
    IF gatewayIndex + 2 <= Len(gateways) THEN gatewayIndex + 2 ELSE gatewayIndex + 1

\* line 201: gatewayIndex++
nextGateway(gatewayIndex) == gatewayIndex + 1

\* lines 206-258: one pass of the inner loop body, from the delay to the end
\* of the try or of the catch, and on to the next attempt or to the throw
attempt(d, fetched) ==
    LET made == [d EXCEPT !.requests = @ + 1,
                          !.tries[d.gatewayIndex] = @ + 1,
                          !.last = <<[gatewayIndex |-> d.gatewayIndex, retry |-> d.retry,
                                      delay |-> delayBefore(d.gatewayIndex, d.retry),
                                      fetched |-> fetched]>>]
        failed == [made EXCEPT !.lastError = <<errorOf(fetched)>>]
    IN  IF fetched.settled = "response" /\ fetched.ok
        THEN onSuccess(made, fetched)
        ELSE IF ~breaks(fetched) /\ d.retry + 1 < MaxTries
        THEN [failed EXCEPT !.retry = @ + 1]
        ELSE IF d.gatewayIndex < Len(gateways)
        THEN [failed EXCEPT !.gatewayIndex = nextGateway(@), !.retry = 0]
        ELSE [failed EXCEPT !.pc = "threw",
                 !.outcome = Throw(getHelpfulDownloadError(d.cid, failed.lastError))]

\* the CIDs a caller downloads: empty, blank, local ones, and a pinned one
DownloadCids == LocalCids \cup PinnedCids

\* lines 145-201: download(cid) up to the first attempt; pinataJWT tells
\* whether the service has a credential, and then the pin list is asked first
DownloadStart(cid, pinataJWT) ==
    /\ ops < MaxOps
    /\ download.pc = "idle"
    /\ LET call == [NoDownload EXCEPT !.cid = cid, !.earlier = download.earlier]
       IN  download' =
             IF isBlank(cid) \/ startsWith(cid, LOCAL_PREFIX)
             THEN LET settled == downloadLocal(ipfs, cid)
                  IN  [call EXCEPT !.outcome = settled,
                          !.pc = IF settled.kind = "return" THEN "done" ELSE "threw"]
             ELSE [call EXCEPT !.pc = "attempt", !.gatewayIndex = 1,
                               !.requests = IF pinataJWT THEN 1 ELSE 0]
    /\ ops' = ops + 1
    /\ UNCHANGED <<revealed_capsules, now, calls, sweep, social, ipfs, crypto, files>>

\* one attempt on the current gateway has ended
DownloadAttempt(fetched) ==
    /\ download.pc = "attempt"
    /\ download' = attempt(download, fetched)
    /\ UNCHANGED <<revealed_capsules, now, calls, sweep, ops, social, ipfs, crypto, files>>

\* the caller takes the content or the error
DownloadReturn ==
    /\ download.pc \in {"done", "threw"}
    /\ download' = [NoDownload EXCEPT !.earlier =
            IF download.pc = "done"
            THEN download.earlier \cup {[cid |-> download.cid, body |-> download.outcome.value]}
            ELSE download.earlier]
    /\ UNCHANGED <<revealed_capsules, now, calls, sweep, ops, social, ipfs, crypto, files>>

\* The same call, await by await. download waits for four kinds of promise:
\* the fetch of the pin list (line 168, with its json() at 175), the delay
\* (line 212), the race of the gateway fetch with the 20 s timer (line 230),
\* and the text() of an ok response (line 233). Only the delay and the race
\* are settled by a timer of the code's own.

\* lines 145-168: download(cid) up to its first await
DownloadEnter(cid, pinataJWT) ==
    /\ ops < MaxOps
    /\ download.pc = "idle"
    /\ LET call == [NoDownload EXCEPT !.cid = cid, !.earlier = download.earlier]
       IN  download' =
             IF isBlank(cid) \/ startsWith(cid, LOCAL_PREFIX)
             THEN LET settled == downloadLocal(ipfs, cid)
                  IN  [call EXCEPT !.outcome = settled,
                          !.pc = IF settled.kind = "return" THEN "done" ELSE "threw"]
             ELSE [call EXCEPT !.gatewayIndex = 1,
                               !.pc = IF pinataJWT THEN "pincheck" ELSE "attempt",
                               !.requests = IF pinataJWT THEN 1 ELSE 0]
    /\ ops' = ops + 1
    /\ UNCHANGED <<revealed_capsules, now, calls, sweep, social, ipfs, crypto, files>>

\* lines 168-183: the pin list request has settled; whatever it brought, and
\* also when it threw, the call goes on to the gateways
PinListSettles ==
    /\ download.pc = "pincheck"
    /\ download' = [download EXCEPT !.pc = "attempt"]
    /\ UNCHANGED <<revealed_capsules, now, calls, sweep, ops, social, ipfs, crypto, files>>

\* lines 211-231: the delay has passed and the race has settled, by a
\* response, by the rejection of fetch, or by the timer's rejection; a
\* response with ok leaves the call waiting for its body
RaceSettles(fetched) ==
    /\ download.pc = "attempt"
    /\ fetched.cause # "body"
    /\ download' = IF fetched.settled = "response" /\ fetched.ok
                   THEN [download EXCEPT !.pc = "reading"]
                   ELSE attempt(download, fetched)
    /\ UNCHANGED <<revealed_capsules, now, calls, sweep, ops, social, ipfs, crypto, files>>

\* lines 233-237 and 248-258: text() has settled, with the body or by
\* rejecting into the catch
BodyRead(fetched) ==
    /\ download.pc = "reading"
    /\ fetched.status = 200
    /\ download' = attempt([download EXCEPT !.pc = "attempt"], fetched)
    /\ UNCHANGED <<revealed_capsules, now, calls, sweep, ops, social, ipfs, crypto, files>>

----------------------------------------------------------------------------
(* CryptoService: encrypt, decrypt and the recovery kit *)

\* A string is the sequence of its UTF-16 code units, a buffer the sequence
\* of its bytes.
LetterA == 97
EAcute == 233
ByteOrderMark == 65279
HighSurrogate == 55357
LowSurrogate == 56832
ReplacementChar == 65533

isHigh(u) == u >= 55296 /\ u <= 56319
isLow(u) == u >= 56320 /\ u <= 57343

\* the UTF-8 bytes of one code point
utf8Bytes(c) ==
    IF c < 128 THEN <<c>>
    ELSE IF c < 2048 THEN <<192 + (c \div 64), 128 + (c % 64)>>
    ELSE IF c < 65536
    THEN <<224 + (c \div 4096), 128 + ((c \div 64) % 64), 128 + (c % 64)>>
    ELSE <<240 + (c \div 262144), 128 + ((c \div 4096) % 64),
           128 + ((c \div 64) % 64), 128 + (c % 64)>>

\* line 37, new TextEncoder().encode(data): a surrogate pair is one code
\* point, a surrogate without its partner is encoded as U+FFFD
RECURSIVE TextEncoder_encode(_)
TextEncoder_encode(data) ==
    IF data = <<>> THEN <<>>
    ELSE IF isHigh(data[1]) /\ Len(data) >= 2 /\ isLow(data[2])
    THEN utf8Bytes(65536 + (data[1] - 55296) * 1024 + (data[2] - 56320))
             \o TextEncoder_encode(SubSeq(data, 3, Len(data)))
    ELSE IF isHigh(data[1]) \/ isLow(data[1])
    THEN utf8Bytes(ReplacementChar) \o TextEncoder_encode(Tail(data))
    ELSE utf8Bytes(data[1]) \o TextEncoder_encode(Tail(data))

\* the length of the UTF-8 sequence a byte starts, 0 when it starts none
sequenceLength(b) ==
    IF b < 128 THEN 1
    ELSE IF b >= 192 /\ b <= 223 THEN 2
    ELSE IF b >= 224 /\ b <= 239 THEN 3
    ELSE IF b >= 240 /\ b <= 247 THEN 4
    ELSE 0

isContinuation(b) == b >= 128 /\ b <= 191

\* the code point of a well-formed sequence of n bytes
codePointOf(bytes, n) ==
    IF n = 1 THEN bytes[1]
    ELSE IF n = 2 THEN (bytes[1] - 192) * 64 + (bytes[2] - 128)
    ELSE IF n = 3 THEN (bytes[1] - 224) * 4096 + (bytes[2] - 128) * 64 + (bytes[3] - 128)
    ELSE (bytes[1] - 240) * 262144 + (bytes[2] - 128) * 4096 + (bytes[3] - 128) * 64
             + (bytes[4] - 128)

\* the code points of a byte sequence; a byte that starts no sequence, or a
\* sequence cut short, gives U+FFFD
RECURSIVE codePoints(_)
codePoints(bytes) ==
    IF bytes = <<>> THEN <<>>
    ELSE LET n == sequenceLength(bytes[1])
         IN  IF n = 0 \/ Len(bytes) < n
                \/ \E i \in 2..n : ~isContinuation(bytes[i])
             THEN <<ReplacementChar>> \o codePoints(Tail(bytes))
             ELSE <<codePointOf(bytes, n)>> \o codePoints(SubSeq(bytes, n + 1, Len(bytes)))

\* the UTF-16 code units of a sequence of code points
RECURSIVE codeUnits(_)
codeUnits(points) ==
    IF points = <<>> THEN <<>>
    ELSE (IF points[1] < 65536 THEN <<points[1]>>
          ELSE <<55296 + ((points[1] - 65536) \div 1024), 56320 + ((points[1] - 65536) % 1024)>>)
         \o codeUnits(Tail(points))

\* line 79, new TextDecoder().decode(decryptedData): UTF-8 with the default
\* ignoreBOM = false, which drops a byte order mark at the start
TextDecoder_decode(bytes) ==
    LET points == codePoints(bytes)
    IN  codeUnits(IF points # <<>> /\ points[1] = ByteOrderMark THEN Tail(points) ELSE points)

\* the base64 alphabet and its padding character
Base64Alphabet ==
    << "A", "B", "C", "D", "E", "F", "G", "H", "I", "J", "K", "L", "M", "N", "O", "P",
       "Q", "R", "S", "T", "U", "V", "W", "X", "Y", "Z", "a", "b", "c", "d", "e", "f",
       "g", "h", "i", "j", "k", "l", "m", "n", "o", "p", "q", "r", "s", "t", "u", "v",
       "w", "x", "y", "z", "0", "1", "2", "3", "4", "5", "6", "7", "8", "9", "+", "/" >>
Base64Pad == "="

sextetChar(n) == Base64Alphabet[n + 1]
sextetOf(ch) == (CHOOSE i \in 1..64 : Base64Alphabet[i] = ch) - 1

\* lines 103-110: btoa of the bytes, three bytes to four characters
RECURSIVE arrayBufferToBase64(_)
arrayBufferToBase64(buffer) ==
    IF buffer = <<>> THEN <<>>
    ELSE IF Len(buffer) = 1
    THEN <<sextetChar(buffer[1] \div 4), sextetChar((buffer[1] % 4) * 16), Base64Pad, Base64Pad>>
    ELSE IF Len(buffer) = 2
    THEN <<sextetChar(buffer[1] \div 4),
           sextetChar((buffer[1] % 4) * 16 + (buffer[2] \div 16)),
           sextetChar((buffer[2] % 16) * 4), Base64Pad>>
    ELSE <<sextetChar(buffer[1] \div 4),
           sextetChar((buffer[1] % 4) * 16 + (buffer[2] \div 16)),
           sextetChar((buffer[2] % 16) * 4 + (buffer[3] \div 64)),
           sextetChar(buffer[3] % 64)>>
         \o arrayBufferToBase64(SubSeq(buffer, 4, Len(buffer)))

\* lines 113-120: atob of the string, four characters to three bytes (to two
\* or one before padding)
RECURSIVE base64ToArrayBuffer(_)
base64ToArrayBuffer(base64) ==
    IF Len(base64) < 4 THEN <<>>
    ELSE LET a == sextetOf(base64[1])
             b == sextetOf(base64[2])
         IN  IF base64[3] = Base64Pad
             THEN <<a * 4 + (b \div 16)>>
             ELSE IF base64[4] = Base64Pad
             THEN <<a * 4 + (b \div 16), (b % 16) * 16 + (sextetOf(base64[3]) \div 4)>>
             ELSE <<a * 4 + (b \div 16), (b % 16) * 16 + (sextetOf(base64[3]) \div 4),
                    (sextetOf(base64[3]) % 4) * 64 + sextetOf(base64[4])>>
                  \o base64ToArrayBuffer(SubSeq(base64, 5, Len(base64)))

\* lines 17-26: the raw bytes of the 256-bit keys generateKey can give
RawKeys == { [i \in 1..32 |-> 0], [i \in 1..32 |-> (i * 37 + 250) % 256] }

\* lines 29-31: the 12 bytes generateIV can give
IVs == { [i \in 1..12 |-> 255], [i \in 1..12 |-> (i * 91) % 256] }

\* the longest plaintext
MaxLen == 2

\* what a caller encrypts: strings of a letter, a two-byte character, a byte
\* order mark and the halves of a surrogate pair
Plaintexts ==
    UNION { [1..n -> {LetterA, EAcute, ByteOrderMark, HighSurrogate, LowSurrogate}] :
              n \in 0..MaxLen }

\* AES-GCM of crypto.subtle: an authenticated cipher, whose ciphertext opens
\* under the key and the IV it was made with and under no other
subtle_encrypt(iv, key, bytes) == [sealedWith |-> <<key, iv>>, bytes |-> bytes]
subtle_decrypt(iv, key, encryptedData) ==
    IF encryptedData.sealedWith = <<key, iv>> THEN <<encryptedData.bytes>> ELSE <<>>

ErrOperation == "OperationError"

\* lines 34-55, with the key and the IV that were generated
encrypt(data, key, iv) ==
    [encryptedContent |-> subtle_encrypt(iv, key, TextEncoder_encode(data)),
     iv |-> iv, key |-> key]

\* lines 58-80
decrypt(encryptedData, key, iv) ==
    LET decryptedData == subtle_decrypt(iv, key, encryptedData)
    IN  IF decryptedData = <<>> THEN Throw(ErrOperation)
        ELSE Return(TextDecoder_decode(decryptedData[1]))

\* lines 83-89
createRecoveryKit(encryptedData, capsuleId) ==
    [key |-> arrayBufferToBase64(encryptedData.key),
     iv |-> arrayBufferToBase64(encryptedData.iv),
     capsuleId |-> capsuleId]

\* lines 92-100
decryptWithRecoveryKit(encryptedContent, recoveryKit) ==
    decrypt(encryptedContent, base64ToArrayBuffer(recoveryKit.key),
            base64ToArrayBuffer(recoveryKit.iv))

\* one plaintext on its way: the envelope encrypt made of it, what a decrypt
\* of the envelope's ciphertext gave under some key and IV, the recovery kit
\* made of the envelope, and what decryptWithRecoveryKit gave with that kit
NoCrypto ==
    [pc |-> "idle", data |-> <<>>, envelope |-> <<>>, decrypted |-> <<>>,
     kit |-> <<>>, recovered |-> <<>>]

Encrypt(data, key, iv) ==
    /\ crypto.pc = "idle"
    /\ crypto' = [NoCrypto EXCEPT !.pc = "encrypted", !.data = data,
                                  !.envelope = <<encrypt(data, key, iv)>>]
    /\ UNCHANGED <<revealed_capsules, now, calls, sweep, ops, social, ipfs, download, files>>

Decrypt(key, iv) ==
    /\ crypto.pc = "encrypted" /\ crypto.decrypted = <<>>
    /\ crypto' = [crypto EXCEPT !.decrypted =
            <<[key |-> key, iv |-> iv,
               outcome |-> decrypt(crypto.envelope[1].encryptedContent, key, iv)]>>]
    /\ UNCHANGED <<revealed_capsules, now, calls, sweep, ops, social, ipfs, download, files>>

CreateRecoveryKit(capsuleId) ==
    /\ crypto.pc = "encrypted" /\ crypto.kit = <<>>
    /\ crypto' = [crypto EXCEPT !.kit = <<createRecoveryKit(crypto.envelope[1], capsuleId)>>]
    /\ UNCHANGED <<revealed_capsules, now, calls, sweep, ops, social, ipfs, download, files>>

DecryptWithRecoveryKit ==
    /\ crypto.kit # <<>> /\ crypto.recovered = <<>>
    /\ crypto' = [crypto EXCEPT !.recovered =
            <<decryptWithRecoveryKit(crypto.envelope[1].encryptedContent, crypto.kit[1])>>]
    /\ UNCHANGED <<revealed_capsules, now, calls, sweep, ops, social, ipfs, download, files>>

----------------------------------------------------------------------------
(* RevealService.decryptCapsuleFiles *)

\* the most files in a capsule
MaxFiles == 3

KeyA == [i \in 1..32 |-> 0]
KeyB == [i \in 1..32 |-> (i * 37 + 250) % 256]
IvA == [i \in 1..12 |-> 255]

\* JSON.parse of the decrypted file data, part_001 line 155: the model's two
\* file descriptions are the one-character strings, anything else is no JSON
parseFileData(text) ==
    IF text = <<LetterA>> THEN <<[name |-> "a.txt", type |-> "text/plain"]>>
    ELSE IF text = <<EAcute>> THEN <<[name |-> "b.png", type |-> "image/png"]>>
    ELSE <<>>

ErrSyntax == "SyntaxError"

\* part_001 lines 153-165
decryptFile(encryptedContent, recoveryKit) ==
    LET decryptedData == decryptWithRecoveryKit(encryptedContent, recoveryKit)
    IN  IF decryptedData.kind = "throw" THEN decryptedData
        ELSE IF parseFileData(decryptedData.value) = <<>> THEN Throw(ErrSyntax)
        ELSE Return(parseFileData(decryptedData.value)[1])

\* a file entry of originalData.files: its name, its key and IV in base64,
\* and its encrypted data
EmbeddedFile(name, text, sealKey, key) ==
    [name |-> name, key |-> arrayBufferToBase64(key), iv |-> arrayBufferToBase64(IvA),
     encryptedData |-> encrypt(text, sealKey, IvA).encryptedContent]

\* two files that decrypt, one whose key is not the key it was encrypted
\* with, and one whose decrypted data is no JSON
EmbeddedFiles ==
    { EmbeddedFile("a.txt", <<LetterA>>, KeyA, KeyA),
      EmbeddedFile("b.png", <<EAcute>>, KeyB, KeyB),
      EmbeddedFile("c.txt", <<LetterA>>, KeyA, KeyB),
      EmbeddedFile("d.txt", <<HighSurrogate>>, KeyA, KeyA) }

FileLists == UNION { [1..n -> EmbeddedFiles] : n \in 0..MaxFiles }

\* one call of decryptCapsuleFiles: the files of the capsule, the position
\* of the loop, the array it returns, and the positions whose decryption threw
NoFiles ==
    [pc |-> "idle", capsuleId |-> NoString, input |-> <<>>, idx |-> 0,
     decryptedFiles |-> <<>>, failed |-> {}]

\* lines 206-230: the body of the loop for the file at position i; the url
\* of URL.createObjectURL is the count of the URLs made so far
decryptOne(f, i) ==
    LET file == f.input[i]
        fileRecoveryKit == [key |-> file.key, iv |-> file.iv, capsuleId |-> f.capsuleId]
        decryptedFile == decryptFile(file.encryptedData, fileRecoveryKit)
    IN  IF decryptedFile.kind = "return"
        THEN [f EXCEPT !.idx = i,
                       !.decryptedFiles = Append(@,
                           [name |-> decryptedFile.value.name,
                            type |-> decryptedFile.value.type,
                            url |-> Len(f.decryptedFiles) + 1, of |-> i])]
        ELSE [f EXCEPT !.idx = i, !.failed = @ \cup {i}]

\* lines 196-203: decryptCapsuleFiles(revealedCapsule) up to the loop
DecryptCapsuleFiles(capsuleId, input) ==
    /\ files.pc = "idle"
    /\ files' = [NoFiles EXCEPT !.pc = "loop", !.capsuleId = capsuleId, !.input = input]
    /\ UNCHANGED <<revealed_capsules, now, calls, sweep, ops, social, ipfs, download, crypto>>

\* lines 205-231: the decryption of the next file has settled
DecryptNextFile ==
    /\ files.pc = "loop" /\ files.idx < Len(files.input)
    /\ files' = decryptOne(files, files.idx + 1)
    /\ UNCHANGED <<revealed_capsules, now, calls, sweep, ops, social, ipfs, download, crypto>>

\* line 233: return decryptedFiles
DecryptCapsuleFilesReturn ==
    /\ files.pc = "loop" /\ files.idx = Len(files.input)
    /\ files' = [files EXCEPT !.pc = "done"]
    /\ UNCHANGED <<revealed_capsules, now, calls, sweep, ops, social, ipfs, download, crypto>>

----------------------------------------------------------------------------
(* The specification *)

Init ==
    /\ revealed_capsules = <<>>
    /\ now = 500
    /\ calls = [s \in Slots |-> IdleCall]
    /\ sweep = IdleSweep
    /\ ops = 0
    /\ social = NoSocial
    /\ ipfs = NoIpfs
    /\ download = NoDownload
    /\ crypto = NoCrypto
    /\ files = NoFiles

Next ==
    \/ \E s \in UserSlots, capsuleId \in CapsuleIds, kit \in Kits, user \in Users,
          unlockTime \in UnlockTimes, msg \in Messages :
            RevealStart(s, capsuleId, kit, user, unlockTime, msg)
    \/ \E s \in Slots : RevealAfterLookup(s)
    \/ \E s \in Slots : RevealAfterDownload(s)
    \/ \E s \in Slots : RevealAfterDecrypt(s)
    \/ \E s \in UserSlots, capsuleId \in CapsuleIds, kit \in Kits, user \in Users,
          unlockTime \in UnlockTimes :
            PreviewStart(s, capsuleId, kit, user, unlockTime)
    \/ \E s \in UserSlots : PreviewAfterLookup(s)
    \/ \E s \in UserSlots : PreviewAfterDownload(s)
    \/ \E s \in UserSlots : PreviewAfterDecrypt(s)
    \/ \E s \in UserSlots : TakeResult(s)
    \/ \E capsuleId \in CapsuleIds : LikeCapsule(capsuleId)
    \/ \E capsuleId \in CapsuleIds, author \in Users : AddComment(capsuleId, author, "nice")
    \/ ClearAllRevealedCapsules
    \/ Tick
    \/ \E user \in Users : SweepStart(user)
    \/ SweepResume
    \/ SweepReturn

Spec == Init /\ [][Next]_vars

\* the content store alone: uploads, downloads and the clock
IpfsNext ==
    \/ \E content \in Contents, fileName \in FileNames, remote \in RemoteOutcomes,
          randomId \in RandomIds :
            UploadString(content, fileName, remote, randomId)
    \/ \E cid \in LocalCids : Download(cid)
    \/ Tick

IpfsSpec == Init /\ [][IpfsNext]_vars

\* Ledgers the service has written before: the records are those revealCapsule
\* stores for alice at time 500, the comment the one addComment appends.
Revealed1 == NewRevealedCapsule(Id1, Payload(Alice, "t1"), 500, alice, TRUE, 1, "early")
RevealedM3 == NewRevealedCapsule(IdM3, MockContent(alice), 500, alice, TRUE, 1, "early")
Commented(capsule) ==
    [capsule EXCEPT !.likes = 1,
        !.comments = <<[id |-> 500, author |-> Bob, content |-> "nice", timestamp |-> 500]>>]

SweepLedgers == { <<>>, <<RevealedM3>>, <<Revealed1>> }

FeedLedgers ==
    { <<>>, <<RevealedM3>>, <<Commented(RevealedM3)>>, <<Revealed1, Commented(RevealedM3)>> }

\* the sweep alone, with no other operation of the service interleaved
SweepInit ==
    /\ revealed_capsules \in SweepLedgers
    /\ now = 500
    /\ calls = [s \in Slots |-> IdleCall]
    /\ sweep = IdleSweep
    /\ ops = 0
    /\ social = NoSocial
    /\ ipfs = NoIpfs
    /\ download = NoDownload
    /\ crypto = NoCrypto
    /\ files = NoFiles

SweepNext ==
    \/ \E user \in Users : SweepStart(user)
    \/ RevealAfterLookup("sweep")
    \/ RevealAfterDownload("sweep")
    \/ RevealAfterDecrypt("sweep")
    \/ SweepResume
    \/ SweepReturn
    \/ Tick

SweepSpec == SweepInit /\ [][SweepNext]_vars

\* the social feed alone: likes, comments and the clearing of the ledger
FeedInit ==
    /\ revealed_capsules \in FeedLedgers
    /\ now = 500
    /\ calls = [s \in Slots |-> IdleCall]
    /\ sweep = IdleSweep
    /\ ops = 0
    /\ social = NoSocial
    /\ ipfs = NoIpfs
    /\ download = NoDownload
    /\ crypto = NoCrypto
    /\ files = NoFiles

FeedNext ==
    \/ \E capsuleId \in CapsuleIds : LikeCapsule(capsuleId)
    \/ \E capsuleId \in CapsuleIds, author \in Users : AddComment(capsuleId, author, "nice")
    \/ ClearAllRevealedCapsules
    \/ Tick

FeedSpec == FeedInit /\ [][FeedNext]_vars

\* uploads and whole download calls, gateway attempt by gateway attempt
DownloadNext ==
    \/ \E content \in Contents, fileName \in FileNames, remote \in RemoteOutcomes,
          randomId \in RandomIds :
            UploadString(content, fileName, remote, randomId)
    \/ \E cid \in DownloadCids, pinataJWT \in BOOLEAN : DownloadStart(cid, pinataJWT)
    \/ \E fetched \in FetchOutcomes : DownloadAttempt(fetched)
    \/ DownloadReturn

DownloadSpec == Init /\ [][DownloadNext]_vars

\* whole download calls, await by await
LiveDownloadNext ==
    \/ \E content \in Contents, fileName \in FileNames, randomId \in RandomIds :
            UploadString(content, fileName, "nojwt", randomId)
    \/ \E cid \in DownloadCids, pinataJWT \in BOOLEAN : DownloadEnter(cid, pinataJWT)
    \/ PinListSettles
    \/ \E fetched \in FetchOutcomes : RaceSettles(fetched)
    \/ \E fetched \in FetchOutcomes : BodyRead(fetched)
    \/ DownloadReturn

\* lines 211-218 and 230: setTimeout settles the delay, and the race at the
\* latest when its 20 s timer rejects, so a call that stands at an attempt
\* does not stay there; no timer of the code settles the pin list request or
\* the reading of a body
RaceFairness == WF_vars(\E fetched \in FetchOutcomes : RaceSettles(fetched))

LiveDownloadSpec == Init /\ [][LiveDownloadNext]_vars /\ RaceFairness

\* revealCapsule and previewCapsule alone, over downloads that can also
\* return something else than the pinned ciphertext
RevealNext ==
    \/ \E s \in UserSlots, capsuleId \in CapsuleIds, kit \in Kits, user \in Users,
          unlockTime \in UnlockTimes, msg \in Messages :
            RevealStart(s, capsuleId, kit, user, unlockTime, msg)
    \/ \E s \in UserSlots : RevealAfterLookup(s)
    \/ \E s \in UserSlots : RevealAfterDownload(s)
    \/ \E s \in UserSlots : RevealAfterTamperedDownload(s)
    \/ \E s \in UserSlots : RevealAfterDecrypt(s)
    \/ \E s \in UserSlots, capsuleId \in CapsuleIds, kit \in Kits, user \in Users,
          unlockTime \in UnlockTimes :
            PreviewStart(s, capsuleId, kit, user, unlockTime)
    \/ \E s \in UserSlots : PreviewAfterLookup(s)
    \/ \E s \in UserSlots : PreviewAfterDownload(s)
    \/ \E s \in UserSlots : PreviewAfterDecrypt(s)
    \/ \E s \in UserSlots : TakeResult(s)
    \/ Tick

RevealSpec == Init /\ [][RevealNext]_vars

\* one call of decryptCapsuleFiles on every list of embedded files
FilesNext ==
    \/ \E input \in FileLists : DecryptCapsuleFiles(Id1, input)
    \/ DecryptNextFile
    \/ DecryptCapsuleFilesReturn

FilesSpec == Init /\ [][FilesNext]_vars

\* one plaintext through encrypt, decrypt and the recovery kit
CryptoNext ==
    \/ \E data \in Plaintexts, key \in RawKeys, iv \in IVs : Encrypt(data, key, iv)
    \/ \E key \in RawKeys, iv \in IVs : Decrypt(key, iv)
    \/ \E capsuleId \in {Id1, IdM3} : CreateRecoveryKit(capsuleId)
    \/ DecryptWithRecoveryKit

CryptoSpec == Init /\ [][CryptoNext]_vars

----------------------------------------------------------------------------
(* Properties *)

Settled(s) == calls[s].pc \in {"done", "threw"}
Succeeded(s) == calls[s].pc = "done" /\ calls[s].result.success
IsReveal(s) == calls[s].op = "reveal"
IsPreview(s) == calls[s].op = "preview"
ValidKit(s) == validateRecoveryKit(calls[s].kit).isValid

\* the record without its social interactions
Core(capsule) ==
    [id |-> capsule.id, originalData |-> capsule.originalData,
     revealedAt |-> capsule.revealedAt, revealedBy |-> capsule.revealedBy,
     isEarlyReveal |-> capsule.isEarlyReveal, revealMessage |-> capsule.revealMessage]

\* the directory entry of a capsule id carries the test marker (a mock CID)
FlaggedSynthetic(capsuleId) == startsWith(getCapsuleIPFSHash(capsuleId), MOCK_PREFIX)

\* C1: the ledger never holds two records with the same capsule id.
C1_OneRecordPerId ==
    \A i, j \in 1..Len(revealed_capsules) :
        i # j => revealed_capsules[i].id # revealed_capsules[j].id

\* two reveals of one capsule id have both written, and the ledger holds the id
C1_Witness ==
    \E s, t \in Slots :
        /\ s # t /\ IsReveal(s) /\ IsReveal(t)
        /\ calls[s].capsuleId = calls[t].capsuleId
        /\ calls[s].writes = 1 /\ calls[t].writes = 1
        /\ isRevealed(revealed_capsules, calls[s].capsuleId)

\* C2 as stated: a revealCapsule call on an id that has a record returns the
\* duplicate-reveal failure whatever the kit, and writes nothing.
C2_AlwaysDuplicate ==
    \A s \in Slots :
        (IsReveal(s) /\ calls[s].hadRecord) =>
            /\ calls[s].pc = "done"
            /\ calls[s].result = Failure(<<ErrDuplicate>>)
            /\ calls[s].writes = 0

\* C2 amended: a revealCapsule call on an id that has a record settles at
\* once with a failure and writes nothing; the failure is the invalid-kit one
\* for a malformed kit, the binding one for a kit of another capsule when the
\* id is not all digits, and the duplicate-reveal one in every other case.
C2_RejectedUnchanged ==
    \A s \in Slots :
        (IsReveal(s) /\ calls[s].hadRecord) =>
            /\ calls[s].pc = "done"
            /\ ~calls[s].result.success
            /\ calls[s].writes = 0
            /\ calls[s].result.error =
                 IF ~ValidKit(s)
                 THEN <<ErrInvalidKit, validateRecoveryKit(calls[s].kit).error>>
                 ELSE IF /\ calls[s].kit.capsuleId # calls[s].capsuleId
                         /\ ~matchDigits(calls[s].capsuleId)
                 THEN <<ErrBinding>>
                 ELSE <<ErrDuplicate>>

\* a call on a revealed id, with a valid kit of that capsule, got the duplicate failure
C2_Witness ==
    \E s \in Slots :
        /\ IsReveal(s) /\ calls[s].hadRecord /\ ValidKit(s)
        /\ calls[s].kit.capsuleId = calls[s].capsuleId
        /\ calls[s].result = Failure(<<ErrDuplicate>>)
        /\ isRevealed(revealed_capsules, calls[s].capsuleId)

\* C3: of two overlapping revealCapsule calls on one capsule id at most one
\* succeeds and at most one writes the ledger.
C3_RaceFree ==
    \A s, t \in Slots :
        (/\ s # t /\ IsReveal(s) /\ IsReveal(t)
         /\ calls[s].capsuleId = calls[t].capsuleId
         /\ t \in calls[s].overlap) =>
            /\ ~(Succeeded(s) /\ Succeeded(t))
            /\ calls[s].writes + calls[t].writes <= 1

\* C4: the record a successful revealCapsule wrote stays in the ledger with the
\* same id, payload, revealedAt, revealedBy, isEarlyReveal and revealMessage.
C4_RecordKept ==
    \A s \in Slots :
        (IsReveal(s) /\ Succeeded(s)) =>
            /\ isRevealed(revealed_capsules, calls[s].capsuleId)
            /\ Core(getRevealedCapsule(revealed_capsules, calls[s].capsuleId))
                    = Core(calls[s].result.data[1])

\* C5: a revealCapsule call with a valid kit of another capsule, on a capsule
\* the directory does not flag as synthetic, ends with the binding failure and
\* writes no record.
C5_BindingEnforced ==
    \A s \in Slots :
        (/\ IsReveal(s) /\ Settled(s) /\ ValidKit(s)
         /\ calls[s].kit.capsuleId # calls[s].capsuleId
         /\ ~FlaggedSynthetic(calls[s].capsuleId)) =>
            /\ calls[s].result = Failure(<<ErrBinding>>)
            /\ calls[s].writes = 0

\* C6: a call succeeds, or writes a record, only when it has decrypted the
\* capsule's payload and the creator in that payload is the caller, letter
\* case ignored.
C6_CreatorOnly ==
    \A s \in Slots :
        (Succeeded(s) \/ calls[s].writes > 0) =>
            /\ calls[s].decrypted
            /\ toLowerCase(ipfsContent(calls[s].cid).plain.creator)
                    = toLowerCase(calls[s].user)

\* C7: a revealCapsule call that succeeded or wrote the ledger has resolved the
\* locator, downloaded the content and decrypted it.
C7_ThroughPipeline ==
    \A s \in Slots :
        (IsReveal(s) /\ (Succeeded(s) \/ calls[s].writes > 0)) =>
            calls[s].located /\ calls[s].fetched /\ calls[s].decrypted

\* C8: a previewCapsule call with a valid kit of another capsule, on a capsule
\* the directory does not flag as synthetic, does not succeed.
C8_PreviewBinding ==
    \A s \in Slots :
        (/\ IsPreview(s) /\ Settled(s) /\ ValidKit(s)
         /\ calls[s].kit.capsuleId # calls[s].capsuleId
         /\ ~FlaggedSynthetic(calls[s].capsuleId)) =>
            ~Succeeded(s)

\* a step of a previewCapsule call
PreviewStep(s) == calls'[s].op = "preview" /\ calls'[s].pc # calls[s].pc

\* what a settled preview returns, told from its arguments, the directory and
\* the outcome of its download alone
PreviewExpected(s) ==
    LET ipfsCid == getCapsuleIPFSHash(calls[s].capsuleId)
    IN  /\ ValidKit(s)
        /\ ipfsCid # NoString
        /\ \/ startsWith(ipfsCid, MOCK_PREFIX)
           \/ /\ calls[s].fetched
              /\ calls[s].kit.secret = ipfsContent(ipfsCid).secret
              /\ isUserAuthorized(ipfsContent(ipfsCid).plain, calls[s].user)

\* C9: no step of a previewCapsule call changes the ledger, and whether the
\* call succeeds is decided by its arguments, the directory and the download,
\* the same with and without a ledger record of the capsule.
C9_PreviewFrame ==
    /\ [][\A s \in Slots : PreviewStep(s) => revealed_capsules' = revealed_capsules]_vars
    /\ [](\A s \in Slots :
            (IsPreview(s) /\ Settled(s)) => (Succeeded(s) <=> PreviewExpected(s)))

\* a preview of a capsule that had a ledger record succeeded, the record still there
C9_Witness ==
    \E s \in Slots :
        /\ IsPreview(s) /\ calls[s].hadRecord /\ Succeeded(s)
        /\ isRevealed(revealed_capsules, calls[s].capsuleId)

\* C10: a call never ends by throwing; it returns success with the data, or
\* success = false with an error text.
C10_StructuredResult ==
    \A s \in Slots :
        /\ calls[s].pc # "threw"
        /\ calls[s].pc = "done" =>
              IF calls[s].result.success
              THEN calls[s].result.data # <<>> /\ calls[s].result.error = <<>>
              ELSE calls[s].result.data = <<>> /\ calls[s].result.error # <<>>

\* a revealCapsule call whose decryption threw has returned the failure
C10_Witness ==
    \E s \in Slots :
        /\ IsReveal(s) /\ calls[s].fetched /\ ~calls[s].decrypted
        /\ calls[s].pc = "done"
        /\ calls[s].result = Failure(<<ErrDecrypt>>)

\* the preconditions of a reveal that must succeed, but for the download: the
\* kit is well formed and bound to the capsule id, the id had no record when
\* the call was made, the kit's secret opens the content and the creator in
\* the content is the caller
RevealDue(s) ==
    /\ IsReveal(s) /\ ValidKit(s)
    /\ calls[s].kit.capsuleId = calls[s].capsuleId
    /\ ~calls[s].hadRecord
    /\ calls[s].cid \in PinnedCids
    /\ calls[s].kit.secret = ipfsContent(calls[s].cid).secret
    /\ toLowerCase(ipfsContent(calls[s].cid).plain.creator) = toLowerCase(calls[s].user)

\* C11: a revealCapsule call with a well-formed kit bound to the capsule id,
\* on an id without a record, whose locator is found, whose download and
\* decryption succeed and whose decrypted creator is the caller, returns
\* success with a record of that id and payload, and the ledger holds that
\* record when the call returns.
C11_RevealSucceeds ==
    /\ [](\A s \in Slots :
            (RevealDue(s) /\ calls[s].fetched /\ Settled(s)) =>
                /\ Succeeded(s)
                /\ calls[s].writes = 1
                /\ calls[s].result.data[1].id = calls[s].capsuleId
                /\ calls[s].result.data[1].originalData = ipfsContent(calls[s].cid).plain)
    /\ [][\A s \in Slots :
            (RevealDue(s) /\ calls[s].pc = "decrypt" /\ calls'[s].pc # "decrypt") =>
                /\ calls'[s].pc = "done" /\ calls'[s].result.success
                /\ \E i \in 1..Len(revealed_capsules') :
                      revealed_capsules'[i] = calls'[s].result.data[1]]_vars

\* such a call has succeeded and its record is in the ledger
C11_Witness ==
    \E s \in Slots :
        /\ RevealDue(s) /\ calls[s].fetched /\ Succeeded(s)
        /\ \E i \in 1..Len(revealed_capsules) :
              revealed_capsules[i] = calls[s].result.data[1]

\* C12: in the data of every successful revealCapsule or previewCapsule call,
\* isEarlyReveal is true exactly when the clock reading of the call (its
\* revealedAt, in milliseconds) is strictly before originalUnlockTime (the
\* call's argument, in seconds) taken in milliseconds.
C12_EarlyFlag ==
    \A s \in Slots :
        Succeeded(s) =>
            LET data == calls[s].result.data[1]
            IN  /\ data.originalUnlockTime = calls[s].unlockTime
                /\ data.isEarlyReveal = (data.revealedAt < calls[s].unlockTime * 1000)
                /\ data.revealedAt >= calls[s].unlockTime * 1000 => ~data.isEarlyReveal

\* a preview has succeeded before the unlock time and is flagged early, a
\* reveal has succeeded at the unlock time itself and is not
C12_Witness ==
    /\ \E s \in Slots :
          /\ IsReveal(s) /\ Succeeded(s) /\ ~calls[s].result.data[1].isEarlyReveal
          /\ calls[s].result.data[1].revealedAt = calls[s].unlockTime * 1000
    /\ \E s \in Slots :
          /\ IsPreview(s) /\ Succeeded(s) /\ calls[s].result.data[1].isEarlyReveal
          /\ calls[s].result.data[1].revealedAt < calls[s].unlockTime * 1000

\* the kit store holds a kit for the directory entry at position i
HasKit(i) ==
    \E k \in 1..Len(capsuleKeys) :
        \/ capsuleKeys[k].kit.capsuleId = timeCapsules[i].id
        \/ capsuleKeys[k].ipfsCid = timeCapsules[i].ipfsHash

\* the unlock time (seconds) of the entry at position i is not after the
\* clock reading t (milliseconds)
Elapsed(i, t) == timeCapsules[i].unlockTime * 1000 <= t

\* C13: the sweep calls revealCapsule only for directory entries whose
\* unlockTime is not later than the time the sweep read, which is not later
\* than the clock; a capsule still locked is never attempted by it.
C13_NoFutureReveal ==
    /\ \A k \in 1..Len(sweep.attempts) :
          /\ Elapsed(sweep.attempts[k], sweep.currentTime)
          /\ sweep.currentTime <= now
    /\ calls["sweep"].op = "reveal" =>
          /\ sweep.pc = "awaiting"
          /\ calls["sweep"].capsuleId = timeCapsules[sweep.idx].id
          /\ calls["sweep"].unlockTime = timeCapsules[sweep.idx].unlockTime
          /\ calls["sweep"].unlockTime * 1000 <= now

\* a sweep has returned after a revealCapsule call, and has left alone an
\* entry that has a kit and no record but unlocks later
C13_Witness ==
    /\ sweep.pc = "done" /\ sweep.attempts # <<>>
    /\ \E i \in 1..Len(timeCapsules) :
          /\ HasKit(i) /\ ~Elapsed(i, now)
          /\ ~isRevealed(revealed_capsules, timeCapsules[i].id)

\* the entry at position i was due when the sweep began: unlocked, without a
\* record, with a kit
DueAtStart(i) ==
    /\ Elapsed(i, sweep.currentTime)
    /\ timeCapsules[i].id \notin sweep.before
    /\ HasKit(i)

\* C14 as stated: when the sweep returns, every entry that was due has a record.
C14_AlwaysRevealed ==
    sweep.pc = "done" =>
        \A i \in 1..Len(timeCapsules) :
            DueAtStart(i) => isRevealed(revealed_capsules, timeCapsules[i].id)

\* C14 amended: when the sweep returns, revealCapsule has been called for the
\* id of every entry that was due, and the id has a record exactly when one of
\* these calls succeeded; a call made for a caller who is not the creator
\* never does.
C14_RevealedIfSucceeded ==
    sweep.pc = "done" =>
        \A i \in 1..Len(timeCapsules) :
            DueAtStart(i) =>
                /\ \E k \in 1..Len(sweep.attempts) :
                      timeCapsules[sweep.attempts[k]].id = timeCapsules[i].id
                /\ isRevealed(revealed_capsules, timeCapsules[i].id)
                      <=> \E j \in sweep.succeeded : timeCapsules[j].id = timeCapsules[i].id
                /\ isRevealed(revealed_capsules, timeCapsules[i].id) =>
                      isUserAuthorized(
                          getRevealedCapsule(revealed_capsules, timeCapsules[i].id).originalData,
                          sweep.user)

\* a sweep has returned with one due capsule revealed by it
C14_Witness ==
    /\ sweep.pc = "done"
    /\ \E i \in 1..Len(timeCapsules) :
          /\ DueAtStart(i) /\ i \in sweep.succeeded
          /\ isRevealed(revealed_capsules, timeCapsules[i].id)

\* C15: with nothing else interleaved, the count the sweep returns is the
\* number of capsule ids that have a record now and had none when it began.
C15_CountIsNewIds ==
    sweep.pc = "done" =>
        sweep.count = Cardinality(ledgerIds(revealed_capsules) \ sweep.before)

\* a sweep has returned 1 after a failed call and a successful call on the
\* repeated id, having passed an entry without a kit
C15_Witness ==
    /\ sweep.pc = "done" /\ sweep.count = 1
    /\ Len(sweep.attempts) = 2
    /\ timeCapsules[sweep.attempts[1]].id = timeCapsules[sweep.attempts[2]].id
    /\ \E i \in 1..Len(timeCapsules) : ~HasKit(i) /\ Elapsed(i, sweep.currentTime)

\* the entry at position i is one the loop must attempt when it reaches it
Eligible(i, t, revealed) ==
    /\ Elapsed(i, t)
    /\ timeCapsules[i].id \notin ledgerIds(revealed)
    /\ HasKit(i)

\* C16: whenever the loop of the sweep runs on (at its start, and after an
\* awaited revealCapsule has settled, with success or not), it goes to the
\* first later entry that is eligible and calls revealCapsule for it; the
\* positions attempted only increase, so no entry is attempted twice or passed
\* over.
C16_SweepContinues ==
    /\ [](\A a, b \in 1..Len(sweep.attempts) : a < b => sweep.attempts[a] < sweep.attempts[b])
    /\ [][(sweep' # sweep /\ sweep.pc \in {"idle", "awaiting"}) =>
            LET from == IF sweep.pc = "idle" THEN 0 ELSE sweep.idx
            IN  /\ \A k \in (from + 1)..Len(timeCapsules) :
                      Eligible(k, sweep'.currentTime, revealed_capsules) =>
                          /\ sweep'.pc = "awaiting"
                          /\ sweep'.idx \in (from + 1)..k
                /\ sweep'.pc = "awaiting" =>
                      /\ sweep'.idx > from
                      /\ Eligible(sweep'.idx, sweep'.currentTime, revealed_capsules)
                      /\ calls'["sweep"].capsuleId = timeCapsules[sweep'.idx].id]_vars

\* the sweep has gone on to a later entry after a revealCapsule call that failed
C16_Witness ==
    /\ Len(sweep.attempts) = 2
    /\ sweep.attempts[1] \notin sweep.succeeded
    /\ sweep.pc = "done"

\* a step that is a likeCapsule or an addComment call
SocialStep == ops' = ops + 1 /\ social'.seq = ops'

\* C17: a likeCapsule or addComment call on an id without a record returns
\* false and leaves the ledger as it was.
C17_AbsentNoEffect ==
    [][(SocialStep /\ social'.capsuleId \notin ledgerIds(revealed_capsules)) =>
            /\ social'.returned = FALSE
            /\ revealed_capsules' = revealed_capsules]_vars

\* such a call has returned false on an id without a record, the ledger not empty
C17_Witness ==
    /\ social.op \in {"like", "comment"} /\ ~social.returned
    /\ social.capsuleId \notin ledgerIds(revealed_capsules)
    /\ revealed_capsules # <<>>

\* the record of a capsule id in a ledger
RecordOf(revealed, capsuleId) ==
    revealed[CHOOSE i \in 1..Len(revealed) : revealed[i].id = capsuleId]

\* C18: an addComment call on an id with a record returns true; the ledger
\* keeps its length and order, every other record is unchanged, and the
\* record of the id is unchanged but for one comment more, at the end of its
\* list, with the author and content given.
C18_OneCommentAppended ==
    [][(/\ SocialStep /\ social'.op = "comment"
        /\ social'.capsuleId \in ledgerIds(revealed_capsules)) =>
            /\ social'.returned = TRUE
            /\ Len(revealed_capsules') = Len(revealed_capsules)
            /\ \A i \in 1..Len(revealed_capsules) :
                  LET old == revealed_capsules[i]
                      new == revealed_capsules'[i]
                  IN  IF old.id # social'.capsuleId
                      THEN new = old
                      ELSE /\ [new EXCEPT !.comments = old.comments] = old
                           /\ Len(new.comments) = Len(old.comments) + 1
                           /\ SubSeq(new.comments, 1, Len(old.comments)) = old.comments
                           /\ new.comments[Len(new.comments)].author = social'.author
                           /\ new.comments[Len(new.comments)].content = social'.content]_vars

\* a comment has been added to a record that had one, next to another record
C18_Witness ==
    /\ social.op = "comment" /\ social.returned
    /\ Len(revealed_capsules) = 2
    /\ Len(RecordOf(revealed_capsules, social.capsuleId).comments) = 2

\* C19: in every step, each capsule id that has a record keeps one, and its
\* comment list before the step is a prefix of its comment list after it.
C19_CommentsOnlyGrow ==
    [][\A i \in 1..Len(revealed_capsules) :
            LET old == revealed_capsules[i]
            IN  /\ old.id \in ledgerIds(revealed_capsules')
                /\ LET new == RecordOf(revealed_capsules', old.id)
                   IN  /\ Len(new.comments) >= Len(old.comments)
                       /\ SubSeq(new.comments, 1, Len(old.comments)) = old.comments]_vars

\* C20: a download of the local CID the last upload returned, with no upload
\* in between, returns the content that was uploaded, whatever its length.
C20_LocalRoundTrip ==
    (/\ ipfs.put # <<>> /\ ipfs.got # <<>>
     /\ ipfs.put[1].result.method = "localStorage"
     /\ ipfs.got[1].cid = ipfs.put[1].result.cid) =>
        /\ ipfs.got[1].outcome.kind = "return"
        /\ ipfs.got[1].outcome.value = ipfs.put[1].data

\* a step of a download call that starts it, and one that makes an attempt
Started == download.pc = "idle" /\ download'.pc # "idle"
Attempted == download.pc = "attempt" /\ download'.requests = download.requests + 1
Fetched == download'.last[1].fetched
Remote(d) == ~isBlank(d.cid) /\ ~startsWith(d.cid, LOCAL_PREFIX)

\* C21: a download of a CID with the local_ prefix returns what the local
\* store holds under it when there is an entry and raises the not-found error
\* when there is none, and in both cases sends no request: neither the pin
\* list check nor an attempt on a gateway.
C21_LocalReadsStore ==
    [][(Started /\ startsWith(download'.cid, LOCAL_PREFIX)) =>
          /\ download'.requests = 0
          /\ \A g \in 1..Len(gateways) : download'.tries[g] = 0
          /\ LET stored == getItem(ipfs.store, ipfsKey(download'.cid))
             IN  IF stored = <<>>
                 THEN /\ download'.pc = "threw"
                      /\ download'.outcome.error = ErrNotInLocalStorage
                 ELSE /\ download'.pc = "done"
                      /\ download'.outcome.value = stored[1]]_vars

\* C22: an upload always returns a result; when there is no JWT, the request
\* throws, or the response is not a success, the data is in the local store
\* under a CID with the local_ prefix; the result has a CID of the remote
\* shape only when the backend pinned the content, and that CID has no
\* local_ prefix.
C22_PutFallsBack ==
    ipfs.put # <<>> =>
        LET put == ipfs.put[1]
        IN  IF put.remote = "pinned"
            THEN /\ put.result.method = "pinata"
                 /\ ~startsWith(put.result.cid, LOCAL_PREFIX)
            ELSE /\ put.result.method = "localStorage"
                 /\ startsWith(put.result.cid, LOCAL_PREFIX)
                 /\ getItem(ipfs.store, ipfsKey(put.result.cid)) = <<put.data>>

\* a response that is not a success has been answered by a local CID
C22_Witness ==
    /\ ipfs.put # <<>>
    /\ ipfs.put[1].remote = "rejected"
    /\ ipfs.put[1].result.method = "localStorage"
    /\ ipfs.put[1].data # <<>>

\* C23: the attempt that gets a success response and reads its body ends
\* the call: the call returns that body, and no attempt follows it, on that
\* gateway or on a later one.
C23_ReadSuccessEnds ==
    /\ [][(Attempted /\ Fetched.settled = "response" /\ Fetched.ok) =>
             /\ download'.pc = "done"
             /\ download'.outcome.kind = "return"
             /\ download'.outcome.value = Fetched.body]_vars
    /\ [][download.pc = "done" =>
             \/ download' = download
             \/ download'.pc = "idle" /\ download'.requests = 0]_vars

\* C23 as stated: every attempt that gets a success response ends the call,
\* and no attempt follows it.
C23_FirstSuccessEnds ==
    [][(Attempted /\ Fetched.ok) => download'.pc = "done"]_vars

\* the second gateway answered with success after the first had failed twice,
\* and no later gateway was asked
C23_Witness ==
    /\ download.pc = "done" /\ download.last # <<>>
    /\ download.last[1].gatewayIndex = 2
    /\ download.tries[1] = 2 /\ download.tries[2] = 1
    /\ \A g \in 3..Len(gateways) : download.tries[g] = 0

\* the message raised for each cause of a failed attempt
messageFor(cause) ==
    CASE cause = "notfound" -> "Content not found on IPFS network"
      [] cause = "cors" -> "Download failed due to CORS restrictions"
      [] cause = "timeout" -> "Download timed out"
      [] cause = "network" -> "Network error while downloading"

\* C24: a call that has used up every gateway raises the error of the cause
\* of its last attempt: not-found after a 404, access-policy after a
\* cross-origin block, timeout after a timeout, network after a network
\* failure; after a 404 from every gateway it is the not-found one.
C24_ClassifiedByLastCause ==
    (download.pc = "threw" /\ download.last # <<>>) =>
        LET cause == download.last[1].fetched.cause
        IN  /\ download.outcome.kind = "throw"
            /\ cause \in {"notfound", "cors", "timeout", "network"} =>
                   download.outcome.error = messageFor(cause)

\* C25: after a 404 response the gateway is not attempted again in this call,
\* and the next attempt, if there is one, is the first try of the next gateway.
C25_NotFoundMovesOn ==
    /\ [][(Attempted /\ Fetched.status = 404) =>
             IF download.gatewayIndex < Len(gateways)
             THEN /\ download'.pc = "attempt"
                  /\ download'.gatewayIndex = download.gatewayIndex + 1
                  /\ download'.retry = 0
             ELSE download'.pc = "threw"]_vars
    /\ [][Attempted => download'.gatewayIndex >= download.gatewayIndex]_vars

\* a first try got a 404 and the call stands at the next gateway
C25_Witness ==
    /\ download.pc = "attempt" /\ download.last # <<>>
    /\ download.last[1].fetched.status = 404
    /\ download.last[1].retry = 0
    /\ download.tries[download.last[1].gatewayIndex] = 1
    /\ download.gatewayIndex = download.last[1].gatewayIndex + 1

\* C26: an attempt that a cross-origin block made fail is not followed by
\* another try of the same gateway: the next attempt, if there is one, is on
\* the next gateway.
C26_CrossOriginMovesOn ==
    [][(Attempted /\ Fetched.cause = "cors") =>
          IF download.gatewayIndex < Len(gateways)
          THEN /\ download'.pc = "attempt"
               /\ download'.gatewayIndex = download.gatewayIndex + 1
               /\ download'.retry = 0
          ELSE download'.pc = "threw"]_vars

RECURSIVE sumTries(_, _)
sumTries(tries, g) == IF g = 0 THEN 0 ELSE tries[g] + sumTries(tries, g - 1)

\* C27: in one call no gateway is attempted more than twice, and the attempts
\* are at most twice the number of gateways.
C27_TwoTriesPerMirror ==
    /\ \A g \in 1..Len(gateways) : download.tries[g] <= 2
    /\ sumTries(download.tries, Len(gateways)) <= 2 * Len(gateways)

\* every gateway was tried twice
C27_Witness ==
    /\ download.pc = "threw"
    /\ \A g \in 1..Len(gateways) : download.tries[g] = 2

\* C28: a first try that fails by a timeout, by an error response other than
\* 404, or by a network error that is no cross-origin block, is followed by
\* the second try of the same gateway; after any second try the call leaves
\* the gateway, having tried it exactly twice.
C28_TimeoutUsesATry ==
    /\ [][(Attempted /\ Fetched.cause \in {"timeout", "http", "network"}
                     /\ download.retry = 0) =>
             /\ download'.pc = "attempt"
             /\ download'.gatewayIndex = download.gatewayIndex
             /\ download'.retry = 1]_vars
    /\ [][(Attempted /\ download.retry = 1) =>
             /\ download'.tries[download.gatewayIndex] = 2
             /\ \/ download'.pc \in {"done", "threw"}
                \/ /\ download'.pc = "attempt"
                   /\ download'.gatewayIndex = download.gatewayIndex + 1
                   /\ download'.retry = 0]_vars

\* two timeouts on a gateway, and the call stands at the next gateway
C28_Witness ==
    /\ download.pc = "attempt" /\ download.last # <<>>
    /\ download.last[1].fetched.cause = "timeout"
    /\ download.last[1].retry = 1
    /\ download.tries[download.last[1].gatewayIndex] = 2
    /\ download.gatewayIndex = download.last[1].gatewayIndex + 1

\* C29: two calls that download the same remote CID with success return the
\* same content, whichever gateways answered them.
C29_SameContentFromAnyMirror ==
    (download.pc = "done" /\ Remote(download)) =>
        \A e \in download.earlier :
            e.cid = download.cid => e.body = download.outcome.value


\* C30: decrypt of the ciphertext of an envelope with the key and the IV of
\* that envelope returns the plaintext that was encrypted, and so does
\* decryptWithRecoveryKit with the recovery kit made of the envelope.
C30_RoundTrip ==
    /\ (/\ crypto.decrypted # <<>>
        /\ crypto.decrypted[1].key = crypto.envelope[1].key
        /\ crypto.decrypted[1].iv = crypto.envelope[1].iv) =>
            /\ crypto.decrypted[1].outcome.kind = "return"
            /\ crypto.decrypted[1].outcome.value = crypto.data
    /\ crypto.recovered # <<>> =>
            /\ crypto.recovered[1].kind = "return"
            /\ crypto.recovered[1].value = crypto.data

\* the content a call received does not authenticate under its kit: the
\* bytes are not the pinned ciphertext, or the kit holds another key or IV
FailsAuthentication(s) ==
    /\ calls[s].fetched
    /\ \/ calls[s].tampered
       \/ calls[s].kit.secret # ipfsContent(calls[s].cid).secret

\* C31: a revealCapsule call whose downloaded content fails authentication
\* under its kit returns the decrypt failure, with no data in the result,
\* and has written no ledger record.
C31_DecryptFailureRejected ==
    \A s \in UserSlots :
        (IsReveal(s) /\ Settled(s) /\ FailsAuthentication(s)) =>
            /\ calls[s].pc = "done"
            /\ ~calls[s].result.success
            /\ calls[s].result.error = <<ErrDecrypt>>
            /\ calls[s].result.data = <<>>
            /\ ~calls[s].decrypted
            /\ calls[s].writes = 0

\* a reveal with the right kit was refused because the content was not the
\* pinned ciphertext, and another with a wrong key
C31_Witness ==
    /\ IsReveal("a") /\ Settled("a") /\ calls["a"].tampered
    /\ calls["a"].kit.secret = ipfsContent(calls["a"].cid).secret
    /\ IsReveal("b") /\ Settled("b") /\ FailsAuthentication("b") /\ ~calls["b"].tampered

\* the positions of the files of the capsule that decrypt
Decryptable(input) ==
    {i \in 1..Len(input) :
        decryptFile(input[i].encryptedData,
            [key |-> input[i].key, iv |-> input[i].iv, capsuleId |-> Id1]).kind = "return"}

\* C32: decryptCapsuleFiles returns exactly the files that decrypt, in the
\* order of the capsule, wherever the failing files stand, and its result
\* tells which files failed: every file of the capsule is in the result, as
\* a decrypted file or as a failed one.
C32_SubsetAndFailuresReported ==
    files.pc = "done" =>
        /\ {files.decryptedFiles[j].of : j \in 1..Len(files.decryptedFiles)}
               = Decryptable(files.input)
        /\ \A j, k \in 1..Len(files.decryptedFiles) :
               j < k => files.decryptedFiles[j].of < files.decryptedFiles[k].of
        /\ \A i \in 1..Len(files.input) :
               \E j \in 1..Len(files.decryptedFiles) : files.decryptedFiles[j].of = i

\* the call was rejected by one of the checks on the kit, the binding or the ledger
RejectedByChecks(s) ==
    /\ Settled(s) /\ calls[s].pc = "done" /\ ~calls[s].result.success
    /\ calls[s].result.error # <<>>
    /\ calls[s].result.error[1] \in {ErrInvalidKit, ErrBinding, ErrDuplicate}

NoWorkDone(s) ==
    /\ calls[s].lookups = 0 /\ calls[s].downloads = 0 /\ calls[s].decrypts = 0
    /\ ~calls[s].located /\ ~calls[s].fetched /\ ~calls[s].decrypted

\* C33: a revealCapsule call rejected for its kit, for the binding or as a
\* duplicate has looked up no CID, downloaded nothing and decrypted nothing;
\* a call with an invalid kit is rejected for the kit, whatever the binding
\* and the ledger say, and in previewCapsule too before the CID is looked up.
C33_RejectedBeforeWork ==
    \A s \in UserSlots :
        /\ (IsReveal(s) /\ RejectedByChecks(s)) => NoWorkDone(s)
        /\ (IsReveal(s) /\ Settled(s) /\ ~ValidKit(s)) =>
               /\ calls[s].pc = "done" /\ ~calls[s].result.success
               /\ calls[s].result.error[1] = ErrInvalidKit
               /\ NoWorkDone(s)
        /\ (IsPreview(s) /\ Settled(s) /\ ~ValidKit(s)) =>
               /\ calls[s].pc = "done" /\ ~calls[s].result.success
               /\ NoWorkDone(s)

\* a call with an invalid kit that is bound to another capsule, on a capsule
\* that has a record, was rejected
C33_Witness ==
    \E s \in UserSlots :
        /\ IsReveal(s) /\ RejectedByChecks(s) /\ ~ValidKit(s)
        /\ calls[s].kit.capsuleId # calls[s].capsuleId /\ ~matchDigits(calls[s].capsuleId)
        /\ calls[s].hadRecord

\* the one download of the call raised its error
DownloadFailed(s) == Settled(s) /\ calls[s].downloads >= 1 /\ ~calls[s].fetched

\* C34: revealCapsule and previewCapsule call the download at most once; a
\* call whose download raised its error has ended with a failure that
\* carries the message of that error, has attempted no decryption and has
\* written nothing to the ledger.
C34_DownloadOnceNoRetry ==
    \A s \in UserSlots :
        /\ calls[s].downloads <= 1
        /\ DownloadFailed(s) =>
               /\ calls[s].pc = "done" /\ ~calls[s].result.success
               /\ calls[s].result.data = <<>>
               /\ \E cause \in DownloadErrors :
                      calls[s].result.error =
                          IF IsReveal(s) THEN <<ErrDownload, cause>> ELSE <<cause>>
               /\ calls[s].decrypts = 0 /\ ~calls[s].decrypted
               /\ calls[s].writes = 0

\* a reveal and a preview have each ended on a failed download
C34_Witness ==
    /\ IsReveal("a") /\ DownloadFailed("a")
    /\ IsPreview("b") /\ DownloadFailed("b")

\* C35: in the comment list of every record the ids are pairwise distinct,
\* and every comment has a greater id and a greater timestamp than the
\* comments before it, also when two comments are added in one clock tick.
C35_FreshMonotonicIds ==
    \A r \in 1..Len(revealed_capsules) :
        LET comments == revealed_capsules[r].comments
        IN  \A j, k \in 1..Len(comments) :
                j < k => /\ comments[j].id < comments[k].id
                         /\ comments[j].timestamp < comments[k].timestamp

\* an attempt whose outcome makes the call leave the gateway at once
Abandons(fetched) ==
    \/ fetched.settled = "response" /\ fetched.status = 404
    \/ fetched.settled = "rejected" /\ fetched.typeError /\ "CORS" \in fetched.message

\* C36: a download of a remote CID starts at the first gateway, the managed
\* one; every attempt is one request on the gateway the call stands at, made
\* when the attempt before it has ended; after it the call tries the same
\* gateway again or stands at the first try of the next gateway in the list,
\* having used both tries of the gateway it leaves or abandoned it; and while
\* the call stands at a gateway, every earlier gateway has been tried and no
\* later one has.
C36_MirrorsInOrder ==
    /\ [][(Started /\ Remote(download')) =>
             /\ download'.pc = "attempt"
             /\ download'.gatewayIndex = 1 /\ download'.retry = 0
             /\ gateways[download'.gatewayIndex] = "gateway.pinata.cloud"
             /\ \A g \in 1..Len(gateways) : download'.tries[g] = 0]_vars
    /\ [][Attempted =>
             /\ download'.last[1].gatewayIndex = download.gatewayIndex
             /\ download'.last[1].retry = download.retry
             /\ download'.tries =
                    [download.tries EXCEPT ![download.gatewayIndex] = @ + 1]
             /\ download'.pc = "attempt" =>
                    \/ /\ download'.gatewayIndex = download.gatewayIndex
                       /\ download'.retry = download.retry + 1
                    \/ /\ download'.gatewayIndex = download.gatewayIndex + 1
                       /\ download'.retry = 0
                       /\ \/ download'.tries[download.gatewayIndex] = 2
                          \/ Abandons(Fetched)]_vars
    /\ [](download.pc = "attempt" =>
             /\ download.gatewayIndex \in 1..Len(gateways)
             /\ download.tries[download.gatewayIndex] = download.retry
             /\ \A h \in 1..Len(gateways) :
                    /\ h < download.gatewayIndex => download.tries[h] \in 1..2
                    /\ h > download.gatewayIndex => download.tries[h] = 0)

\* the call stands at the third gateway, having used both tries of the first
\* and abandoned the second after one
C36_Witness ==
    /\ download.pc = "attempt" /\ download.gatewayIndex = 3 /\ download.retry = 0
    /\ download.tries[1] = 2 /\ download.tries[2] = 1
    /\ Abandons(download.last[1].fetched)

\* C37: the delay before an attempt is 0 for the first try on the first
\* gateway, 1000 ms for the first try on every later gateway, and
\* 1000 + 2000 * retry ms for a retry, 3000 ms before the second try; so
\* every retry and every change of gateway waits for at least 1000 ms.
C37_DelayBeforeAttempt ==
    download.last # <<>> =>
        LET made == download.last[1]
        IN  /\ made.delay =
                   IF made.retry = 0
                   THEN (IF made.gatewayIndex = 1 THEN 0 ELSE 1000)
                   ELSE 1000 + 2000 * made.retry
            /\ made.retry = 1 => made.delay = 3000
            /\ (made.retry > 0 \/ made.gatewayIndex > 1) => made.delay >= 1000

\* the second try on the second gateway waited for three seconds
C37_Witness ==
    /\ download.last # <<>>
    /\ download.last[1].gatewayIndex = 2 /\ download.last[1].retry = 1
    /\ download.last[1].delay = 3000
    /\ download.tries[1] = 2

\* a download call that has not ended yet
Pending == download.pc \in {"pincheck", "attempt", "reading"}

\* C38: every download call ends, returning content or raising the error,
\* when each of its attempts ends in a response, an error or the timeout;
\* it makes at most twice as many attempts as there are gateways; and it
\* raises the error only when no attempt of the call got the content.
C38_DownloadTerminates ==
    /\ Pending ~> download.pc \in {"done", "threw"}
    /\ [](sumTries(download.tries, Len(gateways)) <= 2 * Len(gateways))
    /\ []((download.pc = "threw" /\ download.last # <<>>) =>
              ~(download.last[1].fetched.settled = "response"
                /\ download.last[1].fetched.ok))

\* a step in which the revealCapsule call of slot s returns
RevealReturns(s) == IsReveal(s) /\ ~Settled(s) /\ calls'[s].pc = "done"

\* the ledger without the records of one capsule id
Others(revealed, capsuleId) == SelectSeq(revealed, LAMBDA c : c.id # capsuleId)

\* C39: a revealCapsule call returns success exactly when it has written one
\* record to the ledger: the step that returns success puts one record at
\* the end of the ledger, the only one of the requested id, with revealedBy
\* the caller's address, no likes and no comments, and it is the record the
\* call returns; the records of other ids stay as they were; the step that
\* returns a failure leaves the ledger as it was, and no other step of the
\* call writes.
C39_SuccessIffOneRecord ==
    /\ [][\A s \in UserSlots :
            RevealReturns(s) =>
                IF calls'[s].result.success
                THEN LET n == Len(revealed_capsules')
                         written == revealed_capsules'[n]
                     IN  /\ calls'[s].writes = 1
                         /\ n >= 1
                         /\ written = calls'[s].result.data[1]
                         /\ written.id = calls[s].capsuleId
                         /\ written.revealedBy = calls[s].user
                         /\ written.likes = 0 /\ written.comments = <<>>
                         /\ \A i \in 1..(n - 1) :
                                revealed_capsules'[i].id # calls[s].capsuleId
                         /\ SubSeq(revealed_capsules', 1, n - 1) =
                                Others(revealed_capsules, calls[s].capsuleId)
                ELSE /\ calls'[s].writes = 0
                     /\ revealed_capsules' = revealed_capsules]_vars
    /\ [][\A s \in UserSlots :
            (IsReveal(s) /\ calls'[s].pc \notin {"done", "idle"}) =>
                /\ calls'[s].writes = 0
                /\ calls'[s].pc # "threw"
                /\ (calls[s].op = "reveal" /\ calls'[s] # calls[s]) =>
                       revealed_capsules' = revealed_capsules]_vars

\* one reveal has returned success with the record that is in the ledger,
\* and another has returned a failure after the download, having written
\* nothing
C39_Witness ==
    /\ IsReveal("a") /\ Succeeded("a") /\ calls["a"].writes = 1
    /\ calls["a"].user # calls["a"].result.data[1].originalData.creator
    /\ revealed_capsules = <<calls["a"].result.data[1]>>
    /\ IsReveal("b") /\ calls["b"].pc = "done" /\ ~calls["b"].result.success
    /\ calls["b"].fetched /\ calls["b"].writes = 0

\* a step in which the revealCapsule call made by the sweep writes a record
SweepWrites == calls'["sweep"].writes = calls["sweep"].writes + 1

\* C40: the record that a revealCapsule call of the sweep writes is the one
\* of the directory entry the sweep stands at, with originalUnlockTime the
\* unlockTime of that entry and isEarlyReveal false; and for every entry and
\* every clock reading the sweep's test (unlocked at t) and the reveal's
\* test (early at t) are each other's negation, so that an entry the sweep
\* found unlocked is not early at any later reading.
C40_SweepRevealsNotEarly ==
    /\ [][SweepWrites =>
             LET written == revealed_capsules'[Len(revealed_capsules')]
                 capsule == timeCapsules[sweep.idx]
             IN  /\ sweep.pc = "awaiting"
                 /\ Len(revealed_capsules') >= 1
                 /\ written.id = capsule.id
                 /\ written.originalUnlockTime = capsule.unlockTime
                 /\ written.isEarlyReveal = FALSE
                 /\ written.revealedAt >= sweep.currentTime
                 /\ written.revealedAt >= capsule.unlockTime * 1000]_vars
    /\ [](\A idx \in sweep.succeeded :
             /\ isRevealed(revealed_capsules, timeCapsules[idx].id)
             /\ LET record == getRevealedCapsule(revealed_capsules, timeCapsules[idx].id)
                IN  /\ record.isEarlyReveal = FALSE
                    /\ record.originalUnlockTime = timeCapsules[idx].unlockTime)
    /\ [](\A i \in 1..Len(timeCapsules) :
             /\ isNaturallyUnlocked(now, timeCapsules[i])
                    <=> ~isEarly(now, timeCapsules[i].unlockTime)
             /\ isNaturallyUnlocked(sweep.currentTime, timeCapsules[i])
                    => ~isEarly(now, timeCapsules[i].unlockTime))

\* the sweep has revealed a capsule in the very millisecond of its unlock
\* time, with the unlock time of its directory entry
C40_Witness ==
    /\ sweep.succeeded = {2}
    /\ revealed_capsules # <<>>
    /\ LET record == revealed_capsules[Len(revealed_capsules)]
       IN  /\ record.id = timeCapsules[2].id
           /\ record.originalUnlockTime = 1
           /\ record.revealedAt = 1000
           /\ ~record.isEarlyReveal
           /\ record.revealMessage = AUTO_MESSAGE

====
